---- MODULE Spec2Model ----
(***************************************************************************)
(* Long-task job runner of the deliberation engine:                        *)
(*   backend/jobs_store.py  (JobsStore, the persistent SQLite job table)   *)
(*   backend/job_runner.py  (JobRunner, the asyncio worker pool)           *)
(*   backend/main.py        (the lifecycle hooks and the /api/jobs routes) *)
(* and the deliberation turn that runs beside it:                          *)
(*   backend/council.py     (stages 0 to 4, the lively roundtable and the  *)
(*                           aggregate ranking)                            *)
(*   backend/kb_retrieval.py (the search cache of the knowledge base)      *)
(*   backend/kb_store.py    (the embeddings table)                         *)
(*   backend/llm_client.py  (the model gateway)                            *)
(*   backend/file_utils.py  (the atomic write of the JSON stores)          *)
(*   backend/cache_utils.py (TTLCache)                                     *)
(*   backend/agents_store.py (the agents a turn reads)                     *)
(*                                                                         *)
(* The runner is a single-threaded asyncio program: a step of the model is *)
(* the code that runs between two suspension points (await).               *)
(***************************************************************************)
EXTENDS Integers, Sequences, FiniteSets, TLC

(***************************************************************************)
(* Bounds of the model.                                                    *)
(***************************************************************************)
NumWorkers == 2
MaxJobs == 2
MaxAttemptsIn == 1
MaxRestarts == 1
MaxConfigures == 1
BacklogMargin == 2
InjectRows == 6
MaxGatewayCalls == 2
MaxWriters == 2
MaxReaders == 2
DocParts == 2
CacheCapacity == 2
MaxClockSteps == 4

Workers == 1..NumWorkers
JobIds == 1..MaxJobs

\* The job types of the model: one with cap 1 and no result reuse, one with
\* cap 2 and a result TTL (job_runner.py:50-73).
JobTypes == {"kg_extract", "evidence_pack"}

\* The registered tools of the model: the two above and kb_index, whose tool
\* asks the tool context whether its job was cancelled (tools/kb_index.py).
ToolNames == JobTypes \cup {"kb_index"}

\* Instants at which the wall clock is observed (seconds).
Instants == {0, 600, 700}

\* Explicit idempotency keys a caller passes ("" = none given).
KeysIn == {"", "k"}

(***************************************************************************)
(* Program constants.                                                      *)
(***************************************************************************)
DefaultToolLimits == [t \in ToolNames |-> IF t = "evidence_pack" THEN 2 ELSE 1]
DefaultTimeouts ==
    [t \in ToolNames |-> IF t = "kg_extract" THEN 1800 ELSE IF t = "kb_index" THEN 1200 ELSE 480]
DefaultResultTtls == [t \in ToolNames |-> IF t = "evidence_pack" THEN 600 ELSE 0]
MaxAttemptsCap == 20
BackoffCapSeconds == 1800
BackoffMaxExp == 15
DelaySleepCap == 3600
QueuedListLimit == 2000
ToolLimitCap == 32
MaxWorkersCap == 8
InjectLimit == 4
FetchLimitCap == 20

Min(a, b) == IF a < b THEN a ELSE b
Max(a, b) == IF a > b THEN a ELSE b

RECURSIVE Pow2(_)
Pow2(n) == IF n = 0 THEN 1 ELSE 2 * Pow2(n - 1)

VARIABLES
    jobs,             \* the jobs table, in insertion (created_at) order; job id = index
    now,              \* wall clock, seconds
    queue,            \* JobRunner._queue; 0 stands for the "" sentinel of stop()
    enqueued,         \* JobRunner._enqueued
    stopEv,           \* JobRunner._stop
    pc,               \* position of each worker task of JobRunner._tasks
    wjob,             \* the local `job` snapshot of each worker
    wsem,             \* the semaphore object a worker waits for or holds
    task,             \* state of the tool task a worker awaits (_running_tasks)
    cancel_events,    \* JobRunner._cancel_events
    sems,             \* the asyncio.Semaphore objects ever stored in _tool_limits
    gen,              \* number of times configure() emptied _tool_limits
    tool_limit_values,\* JobRunner._tool_limit_values
    workers,          \* JobRunner.workers, fixed by the constructor
    tools,            \* names registered in the ToolRegistry given to set_tools
    delayTasks,       \* pending _delay_enqueue tasks
    stopping,         \* a stop() call is suspended in `await t`
    restarts,         \* stop() calls and process crashes so far
    last              \* what the most recent step returned, if it was a
                      \* create_and_enqueue call (the job id), a dequeue that
                      \* dropped its job, or start() (the rows it requeued)
VARIABLE
    returned          \* history: how many times each job's summary has been
                      \* returned by fetch_injectable_summaries

\* The deliberation turn (backend/council.py, backend/main.py send_message)
\* and the stores it reads (backend/agents_store.py, backend/storage.py).
VARIABLES
    agents,             \* agents store: the list list_agents() returns
    agent_ids,          \* conversation["agent_ids"]; <<>> stands for None
    configured,         \* providers whose API key is configured
    tpc,                \* position of the turn handler
    s1_agents,          \* `agents` local of stage1_collect_responses
    s1_resp,            \* what _query_agent returned per Stage 1 agent
    stage1_results,     \* Stage 1 records of the turn
    s2_agents,          \* `agents` local of stage2_collect_rankings
    s2_resp,            \* what _query_agent returned per Stage 2 agent
    label_to_agent,     \* label -> agent record of the turn
    stage2_results,     \* Stage 2 records of the turn
    aggregate_rankings, \* calculate_aggregate_rankings of the turn
    stage3_result       \* the turn's final result {model, response}

\* The optional stages of the turn and what they read.
VARIABLES
    settings,           \* settings_store.get_settings(): the stage switches
    doc_ids,            \* number of readable KB documents bound to the conversation
    chairman_agent_id,  \* conversation["chairman_agent_id"]
    chairman_model,     \* conversation["chairman_model"]; NoSpec stands for ""
    calls,              \* per stage run by the chairman or the roundtable, the
                        \* calls it dispatched: the model called and the outcome
    rt_agents,          \* `agents` local of stage2b_roundtable
    rt_round,           \* the round stage2b_roundtable is in
    roundtable,         \* `out` of stage2b_roundtable: the agents that spoke
    trace               \* stage_start / stage_complete events of trace_append

pvars == <<settings, doc_ids, chairman_agent_id, chairman_model, calls, rt_agents,
           rt_round, roundtable, trace>>

\* The lively discussion (council.stage2b_lively): its locals.
VARIABLES
    lpc,                \* position of stage2b_lively: the call it awaits
    lively_agents,      \* `agents`, the ids in the order _pick_next_agent left them
    speaker,            \* `agent`: whose call is awaited
    transcript,         \* `transcript`: the agent_id of each entry, "" for the chairman
    leader_ids,         \* `leader_ids`
    since_checkpoint,   \* `since_checkpoint`
    turns_used,         \* `turns_used`
    max_messages,       \* `max_messages` after clamping
    max_turns,          \* `max_turns` after clamping
    action,             \* `action` of the last checkpoint, "" before the first
    silent              \* history: some call of the stage gave no content

lvars == <<lpc, lively_agents, speaker, transcript, leader_ids, since_checkpoint,
           turns_used, max_messages, max_turns, action, silent>>

\* The knowledge base and the retriever's cache (backend/kb_store.py,
\* backend/kb_retrieval.py).
VARIABLES
    kb_docs,            \* ids of the rows of kb_documents
    search_cache,       \* KBHybridRetriever._search_cache: key -> cached hits
    last_search,        \* what the most recent search() returned, and from where
    stale_keys          \* history: the cache keys whose entry was stored before
                        \* the latest write of the knowledge base

kvars == <<kb_docs, search_cache, last_search, stale_keys>>

\* The embeddings table (backend/kb_store.py), the model gateway
\* (backend/llm_client.py), the JSON files of the stores
\* (backend/file_utils.py) and a TTLCache (backend/cache_utils.py).
VARIABLES
    chunk_embeddings,   \* rows of kb_chunk_embeddings: chunk_id -> [model_spec, vector]
    last_embeddings,    \* what the most recent get_chunk_embeddings returned
    gateway_calls,      \* history: the gateway calls made and how each ended
    inodes,             \* file contents on disk, by inode
    directory,          \* the data directory: file name -> inode
    writers,            \* the atomic_write_json calls in progress
    readers,            \* the readers of the file: position, what they read and
                        \* (history) whether the file was replaced meanwhile
    cache_data,         \* TTLCache._data, least recently used first
    cache_ttl,          \* TTLCache.ttl_seconds
    cache_time,         \* time.time() as the cache reads it
    cache_last          \* what the most recent TTLCache.get returned

svars == <<chunk_embeddings, last_embeddings, gateway_calls, inodes, directory, writers,
           readers, cache_data, cache_ttl, cache_time, cache_last>>

cvars == <<agents, agent_ids, configured, tpc, s1_agents, s1_resp, stage1_results,
           s2_agents, s2_resp, label_to_agent, stage2_results, aggregate_rankings,
           stage3_result, pvars, lvars, kvars, svars>>

vars == <<jobs, now, queue, enqueued, stopEv, pc, wjob, wsem, task, cancel_events,
          sems, gen, tool_limit_values, workers, tools, delayTasks, stopping, restarts, last, returned, cvars>>

runnerMem == <<queue, enqueued, stopEv, pc, wjob, wsem, task, cancel_events,
               sems, gen, tool_limit_values, delayTasks, stopping>>

\* The empty model spec "".
NoSpec == <<"", "">>

\* settings with every optional stage switched off.
StagesOff ==
    [enable_preprocess |-> FALSE, enable_roundtable |-> FALSE, roundtable_rounds |-> 1,
     enable_fact_check |-> FALSE, enable_report_generation |-> FALSE]

NoCalls == [stage0 |-> <<>>, stage2b |-> <<>>, stage2c |-> <<>>, stage3 |-> <<>>, stage4 |-> <<>>]

\* A new conversation (storage.create_conversation) before its first turn,
\* the optional stages being as `s` sets them.
NoExtras(s, d) ==
    /\ settings = s
    /\ doc_ids = d
    /\ chairman_agent_id = ""
    /\ chairman_model = NoSpec
    /\ calls = NoCalls
    /\ rt_agents = <<>>
    /\ rt_round = 0
    /\ roundtable = <<>>
    /\ trace = <<>>

\* An empty knowledge base and a retriever that has not searched.
NoSearch == [query |-> "", hits |-> {}, cached |-> FALSE, stale |-> FALSE]

NoKB ==
    /\ kb_docs = {}
    /\ search_cache = <<>>
    /\ last_search = NoSearch
    /\ stale_keys = {}

\* What a TTLCache.get that has not happened returned.
NoLookup == [key |-> "", hit |-> FALSE, value |-> 0, age |-> 0]

\* An empty embeddings table, no gateway call made, an empty data directory
\* and an empty cache.
NoStores ==
    /\ chunk_embeddings = <<>>
    /\ last_embeddings = <<>>
    /\ gateway_calls = <<>>
    /\ inodes = <<>>
    /\ directory = <<>>
    /\ writers = <<>>
    /\ readers = <<>>
    /\ cache_data = <<>>
    /\ cache_ttl = 0
    /\ cache_time = 0
    /\ cache_last = NoLookup

\* No lively discussion has started.
NoLively ==
    /\ lpc = "idle"
    /\ lively_agents = <<>>
    /\ speaker = ""
    /\ transcript = <<>>
    /\ leader_ids = <<>>
    /\ since_checkpoint = 0
    /\ turns_used = 0
    /\ max_messages = 0
    /\ max_turns = 0
    /\ action = ""
    /\ silent = FALSE

\* No turn is in progress and the agents store is empty.
NoTurn ==
    /\ NoExtras(StagesOff, 0)
    /\ NoLively
    /\ NoKB
    /\ NoStores
    /\ agents = <<>>
    /\ agent_ids = <<>>
    /\ configured = {}
    /\ tpc = "idle"
    /\ s1_agents = <<>>
    /\ s1_resp = <<>>
    /\ stage1_results = <<>>
    /\ s2_agents = <<>>
    /\ s2_resp = <<>>
    /\ label_to_agent = <<>>
    /\ stage2_results = <<>>
    /\ aggregate_rankings = <<>>
    /\ stage3_result = [model |-> <<"", "">>, response |-> "", providers |-> {}]

Terminal == {"succeeded", "failed", "canceled"}

NoJob == [id |-> 0, job_type |-> "", status |-> "", attempts |-> 0, max_attempts |-> 0]

Obs(op, id, res) == [op |-> op, id |-> id, res |-> res]
NoObs == Obs("", 0, "")

(***************************************************************************)
(* JobsStore: the rows of the jobs table.  A row keeps the columns the     *)
(* runner reads; payload, progress, result and error carry no control      *)
(* flow and are left out.  Every UPDATE also writes updated_at.            *)
(***************************************************************************)
JobRow(type, conv, key, maxAtt, t) ==
    [job_type |-> type, status |-> "queued", conversation_id |-> conv,
     injected |-> FALSE, idempotency_key |-> key,
     attempts |-> 0, max_attempts |-> maxAtt, run_after_ts |-> 0,
     updated_at |-> t]

\* JobsStore.update_job: the given columns and updated_at are overwritten.
update_job(js, jid, upd) ==
    IF jid \notin DOMAIN js THEN js
    ELSE [js EXCEPT ![jid] =
            [f \in DOMAIN js[jid] |->
                IF f = "updated_at" THEN now
                ELSE IF f \in DOMAIN upd
                     THEN (IF f \in {"attempts", "run_after_ts"} THEN Max(0, upd[f])
                           ELSE IF f = "max_attempts" THEN Max(0, Min(MaxAttemptsCap, upd[f]))
                           ELSE upd[f])
                     ELSE js[jid][f]]]

\* A lookup that returns the oldest row of (job_type, key) instead of the latest.
get_by_idempotency_oldest(js, type, key) ==
    IF type = "" \/ key = "" THEN 0
    ELSE LET hits == {i \in DOMAIN js : js[i].job_type = type /\ js[i].idempotency_key = key}
         IN IF hits = {} THEN 0 ELSE CHOOSE i \in hits : \A k \in hits : i <= k

\* JobsStore.get_by_idempotency: id of the latest row of (job_type, key), 0 if none.
get_by_idempotency(js, type, key) ==
    IF type = "" \/ key = "" THEN 0
    ELSE LET hits == {i \in DOMAIN js : js[i].job_type = type /\ js[i].idempotency_key = key}
         IN IF hits = {} THEN 0 ELSE CHOOSE i \in hits : \A k \in hits : k <= i

\* JobsStore.create_job: [jobs, id] after the call; the row is inserted unless a
\* row of the same key exists whose status is neither failed nor canceled.
create_job(js, type, conv, key, maxAtt) ==
    LET existing == get_by_idempotency(js, type, key)
    IN IF key # "" /\ existing # 0 /\ js[existing].status \notin {"failed", "canceled"}
       THEN [jobs |-> js, id |-> existing]
       ELSE [jobs |-> Append(js, JobRow(type, conv, key, Max(0, Min(MaxAttemptsCap, maxAtt)), now)),
             id |-> Len(js) + 1]

\* JobsStore.cancel_job: [ok, jobs].
cancel_job(js, jid) ==
    IF jid \notin DOMAIN js \/ js[jid].status \in Terminal
    THEN [ok |-> FALSE, jobs |-> js]
    ELSE [ok |-> TRUE, jobs |-> update_job(js, jid, [status |-> "canceled"])]

\* JobsStore.requeue_running_jobs: UPDATE ... SET status='queued' WHERE status='running'.
requeue_running_jobs(js) ==
    [i \in DOMAIN js |->
        IF js[i].status = "running"
        THEN [js[i] EXCEPT !.status = "queued", !.updated_at = now]
        ELSE js[i]]

\* JobsStore.list_queued_job_ids: SELECT id ... WHERE status='queued'
\* ORDER BY created_at ASC LIMIT max(1, min(20000, limit)).
list_queued_job_ids(js, limit) ==
    LET queued == SelectSeq([i \in 1..Len(js) |-> i], LAMBDA i : js[i].status = "queued")
    IN SubSeq(queued, 1, Min(Len(queued), Max(1, Min(20000, limit))))

\* JobsStore.claim_job: the conditional UPDATE queued -> running; [ok, jobs].
claim_job(js, jid) ==
    IF jid \in DOMAIN js /\ js[jid].status = "queued"
    THEN [ok |-> TRUE, jobs |-> [js EXCEPT ![jid].status = "running", ![jid].updated_at = now]]
    ELSE [ok |-> FALSE, jobs |-> js]

\* A fetch that returns the first succeeded rows of the conversation and
\* marks nothing.
fetch_injectable_summaries_unmarked(js, conv, limit) ==
    LET hits == {i \in DOMAIN js : js[i].conversation_id = conv /\ js[i].status = "succeeded"}
        ordered == [n \in 1..Cardinality(hits) |->
                      CHOOSE i \in hits : Cardinality({k \in hits : k < i}) = n - 1]
    IN [items |-> SubSeq(ordered, 1, Min(Len(ordered), limit)), jobs |-> js]

\* A fetch that takes the not yet injected rows of the conversation whatever
\* their status, and marks them.
fetch_injectable_summaries_any_status(js, conv, limit) ==
    LET hits == {i \in DOMAIN js : js[i].conversation_id = conv /\ ~js[i].injected}
        ordered == [n \in 1..Cardinality(hits) |->
                      CHOOSE i \in hits : Cardinality({k \in hits : k < i}) = n - 1]
        items == SubSeq(ordered, 1, Min(Len(ordered), limit))
    IN [items |-> items,
        jobs |-> [i \in DOMAIN js |->
                    IF \E n \in DOMAIN items : items[n] = i
                    THEN [js[i] EXCEPT !.injected = TRUE] ELSE js[i]]]

\* JobsStore.fetch_injectable_summaries: [items, jobs].  items are the ids of
\* the succeeded, not yet injected rows of the conversation, by updated_at
\* (then insertion order), at most max(1, min(20, limit)) of them; every one
\* is marked injected by update_job.
fetch_injectable_summaries(js, conv, limit) ==
    LET hits == {i \in DOMAIN js : /\ js[i].conversation_id = conv
                                   /\ js[i].status = "succeeded"
                                   /\ ~js[i].injected}
        Before(a, b) == \/ js[a].updated_at < js[b].updated_at
                        \/ (js[a].updated_at = js[b].updated_at /\ a < b)
        ordered == [n \in 1..Cardinality(hits) |->
                      CHOOSE i \in hits : Cardinality({k \in hits : Before(k, i)}) = n - 1]
        items == SubSeq(ordered, 1, Min(Len(ordered), Max(1, Min(FetchLimitCap, limit))))
        picked == {items[n] : n \in DOMAIN items}
    IN IF conv = "" THEN [items |-> <<>>, jobs |-> js]
       ELSE [items |-> items,
             jobs |-> [i \in DOMAIN js |->
                         IF i \in picked THEN update_job(js, i, [injected |-> TRUE])[i]
                         ELSE js[i]]]

(***************************************************************************)
(* JobRunner: helpers.                                                     *)
(***************************************************************************)
\* JobRunner.enqueue on the pair (_enqueued, _queue).
enqueue(st, jid) ==
    IF jid = 0 \/ jid \in st.enqueued THEN st
    ELSE [enqueued |-> st.enqueued \cup {jid}, queue |-> Append(st.queue, jid)]

\* `for jid in ids: self.enqueue(jid)` for distinct ids (primary keys): the
\* ids not yet in _enqueued are appended in order.
enqueue_all(st, ids) ==
    LET fresh == SelectSeq(ids, LAMBDA jid : jid # 0 /\ jid \notin st.enqueued)
    IN [enqueued |-> st.enqueued \cup {fresh[i] : i \in DOMAIN fresh},
        queue |-> st.queue \o fresh]

\* JobRunner.is_job_cancelled: the cancel event is set, or the stored status is canceled.
is_job_cancelled(jid) ==
    \/ cancel_events[jid] = "set"
    \/ (jid \in DOMAIN jobs /\ jobs[jid].status = "canceled")

\* A retry test that grants one retry too many.
should_retry_once_more(job) ==
    job.max_attempts # 0 /\ job.attempts <= job.max_attempts /\ job.status # "canceled"

\* A retry test that never grants a retry.
should_retry_never(job) == FALSE

\* JobRunner._should_retry, on the worker's snapshot of the job (taken right
\* after the claim, so its status is "running").
should_retry(job) ==
    job.max_attempts # 0 /\ job.attempts < job.max_attempts /\ job.status # "canceled"

\* A backoff without the 30 minute cap.
retry_delay_uncapped(next_attempt) == Pow2(Min(BackoffMaxExp, next_attempt))

\* Backoff of JobRunner._schedule_retry, seconds.
retry_delay(next_attempt) == Min(BackoffCapSeconds, Pow2(Min(BackoffMaxExp, next_attempt)))

\* A retry that updates the row and does not put the job id on the queue.
schedule_retry_unqueued(js, st, job) ==
    [jobs |-> update_job(js, job.id,
                  [status |-> "queued", attempts |-> job.attempts + 1,
                   run_after_ts |-> now + retry_delay(job.attempts + 1)]),
     st |-> st]

\* JobRunner._schedule_retry: [jobs, st] after the update and the enqueue.
schedule_retry(js, st, job) ==
    LET next_attempt == job.attempts + 1
    IN [jobs |-> update_job(js, job.id,
                    [status |-> "queued", attempts |-> next_attempt,
                     run_after_ts |-> now + retry_delay(next_attempt)]),
        st |-> enqueue(st, job.id)]

\* The limit a new semaphore of JobRunner._get_tool_semaphore gets.
sem_limit(type) ==
    Max(1, IF type \in DOMAIN tool_limit_values THEN tool_limit_values[type] ELSE workers)

\* The default key of create_and_enqueue: sha1 of "type:conversation_id:payload".
default_key(type, conv, payload) == "sha1(" \o type \o ":" \o conv \o ":" \o payload \o ")"

(***************************************************************************)
(* State after construction: JobsStore() on an empty table, JobRunner()    *)
(* not yet started, every built-in tool registered.                        *)
(***************************************************************************)
NoSems == [t \in ToolNames |-> [g \in 0..MaxConfigures |-> -1]]

\* JobRunner(store, workers=n) and the module-level tool registration.
InitRunnerMem(n, ids) ==
    /\ workers = Max(1, Min(MaxWorkersCap, n))
    /\ now = 0
    /\ queue = <<>>
    /\ enqueued = {}
    /\ stopEv = FALSE
    /\ pc = [w \in Workers |-> "none"]
    /\ wjob = [w \in Workers |-> NoJob]
    /\ wsem = [w \in Workers |-> 0]
    /\ task = [w \in Workers |-> "none"]
    /\ cancel_events = [j \in ids |-> "absent"]
    /\ sems = NoSems
    /\ gen = 0
    /\ tool_limit_values = DefaultToolLimits
    /\ tools = ToolNames
    /\ delayTasks = {}
    /\ stopping = FALSE
    /\ restarts = 0
    /\ last = NoObs
    /\ returned = [j \in ids |-> 0]

InitRunnerOver(n, ids) == InitRunnerMem(n, ids) /\ NoTurn

InitRunner(n) == InitRunnerOver(n, JobIds)

InitWith(n) == jobs = <<>> /\ InitRunner(n)

Snapshot(jid, row) ==
    [id |-> jid, job_type |-> row.job_type, status |-> row.status,
     attempts |-> row.attempts, max_attempts |-> row.max_attempts]

\* `while not self._stop.is_set()` at the top of the worker loop.
LoopTop == IF stopEv THEN "done" ELSE "get"

\* Jobs whose tool task exists (a worker awaits it).
Executing(w) == pc[w] = "run"
Holder(jid) == {w \in Workers : pc[w] \in {"sem", "run"} /\ wjob[w].id = jid}

(***************************************************************************)
(* JobRunner.create_and_enqueue, called with reuse_ttl_seconds=None.       *)
(* create_and_enqueue_result gives what the call returns and leaves.       *)
(***************************************************************************)
create_and_enqueue_result(type, conv, keyIn, payload, maxAtt, force_new) ==
    LET key == IF keyIn = "" THEN default_key(type, conv, payload) ELSE keyIn
        ttl == DefaultResultTtls[type]
        existing == IF key # "" /\ ~force_new THEN get_by_idempotency(jobs, type, key) ELSE 0
        age == IF existing # 0 THEN now - jobs[existing].updated_at ELSE 0
        reuse == /\ existing # 0
                 /\ \/ jobs[existing].status \in {"queued", "running"}
                    \/ /\ jobs[existing].status = "succeeded"
                       /\ ttl > 0
                       /\ age >= 0 /\ age <= ttl
        made == create_job(jobs, type, conv, key, maxAtt)
    IN IF reuse
       THEN [id |-> existing, jobs |-> jobs,
             st |-> [enqueued |-> enqueued, queue |-> queue], path |-> "reused"]
       ELSE [id |-> made.id, jobs |-> made.jobs,
             st |-> enqueue([enqueued |-> enqueued, queue |-> queue], made.id),
             path |-> IF Len(made.jobs) > Len(jobs) THEN "created" ELSE "existing"]

CreateAndEnqueue(type, conv, keyIn, payload, maxAtt, force_new) ==
    LET r == create_and_enqueue_result(type, conv, keyIn, payload, maxAtt, force_new)
    IN /\ Len(r.jobs) <= MaxJobs
       /\ jobs' = r.jobs
       /\ enqueued' = r.st.enqueued
       /\ queue' = r.st.queue
       /\ last' = Obs(IF force_new THEN "create_force" ELSE "create", r.id, r.path)
       /\ UNCHANGED <<now, stopEv, pc, wjob, wsem, task, cancel_events, sems, gen,
                      tool_limit_values, workers, tools, delayTasks, stopping, restarts, returned, cvars>>

(***************************************************************************)
(* Cancellation entry points.                                              *)
(***************************************************************************)
\* POST /api/jobs/{job_id}/cancel: jobs_store.cancel_job(job_id) and nothing else.
HttpCancel(jid) ==
    /\ jid \in DOMAIN jobs
    /\ LET c == cancel_job(jobs, jid)
       IN /\ jobs' = c.jobs
          /\ last' = NoObs
    /\ UNCHANGED <<now, workers, tools, restarts, returned, cvars>>
    /\ UNCHANGED runnerMem

\* JobRunner.cancel: store, then the cancel event, then the running task.
RunnerCancel(jid) ==
    /\ jid \in DOMAIN jobs
    /\ LET c == cancel_job(jobs, jid)
       IN /\ jobs' = c.jobs
          /\ last' = NoObs
    /\ cancel_events' = [cancel_events EXCEPT ![jid] = IF @ = "absent" THEN @ ELSE "set"]
    /\ task' = [w \in Workers |->
                  IF pc[w] = "run" /\ wjob[w].id = jid /\ task[w] = "exec"
                  THEN "cancelled" ELSE task[w]]
    /\ UNCHANGED <<now, queue, enqueued, stopEv, pc, wjob, wsem, sems, gen,
                   tool_limit_values, workers, tools, delayTasks, stopping, restarts, returned, cvars>>

(***************************************************************************)
(* JobRunner._worker_loop.                                                 *)
(***************************************************************************)
\* A new _delay_enqueue task for jid that sleeps until `wake`; n tells apart
\* tasks for the same job and wake-up time.
NewDelayTask(jid, wake) ==
    [jid |-> jid, wake |-> wake,
     n |-> 1 + Cardinality({d \in delayTasks : d.jid = jid /\ d.wake = wake})]

\* A worker that takes every known job id it dequeues, without the status
\* checks and without the conditional update.
dequeue_decision_unchecked(js, jid) ==
    IF jid = 0 THEN [verdict |-> "sentinel", jobs |-> js]
    ELSE IF jid \notin DOMAIN js THEN [verdict |-> "dropped", jobs |-> js]
    ELSE IF js[jid].job_type \notin tools THEN [verdict |-> "unknown_type", jobs |-> js]
    ELSE [verdict |-> "claimed",
          jobs |-> [js EXCEPT ![jid].status = "running", ![jid].updated_at = now]]

\* What the worker decides about a dequeued job id before it executes
\* anything (job_runner.py:304-337): [verdict, jobs], jobs being the table
\* after the claim.
dequeue_decision(js, jid) ==
    LET c == claim_job(js, jid)
    IN IF jid = 0 THEN [verdict |-> "sentinel", jobs |-> js]
       ELSE IF jid \notin DOMAIN js THEN [verdict |-> "dropped", jobs |-> js]
       ELSE IF js[jid].status = "canceled" THEN [verdict |-> "dropped", jobs |-> js]
       ELSE IF js[jid].status # "queued" THEN [verdict |-> "dropped", jobs |-> js]
       ELSE IF js[jid].run_after_ts > 0 /\ now < js[jid].run_after_ts
            THEN [verdict |-> "deferred", jobs |-> js]
       ELSE IF ~c.ok THEN [verdict |-> "dropped", jobs |-> js]
       ELSE IF js[jid].job_type \notin tools THEN [verdict |-> "unknown_type", jobs |-> c.jobs]
       ELSE [verdict |-> "claimed", jobs |-> c.jobs]

\* From `await self._queue.get()` to the next suspension point: the sentinel
\* and status checks, the deferral, the claim, the cancel event, and the
\* semaphore if it is free.
WorkerDequeue(w) ==
    /\ pc[w] = "get"
    /\ queue # <<>>
    /\ LET jid == Head(queue)
           d == dequeue_decision(jobs, jid)
           job == jobs[jid]
           type == job.job_type
           g == gen
           limit == IF sems[type][g] = -1 THEN sem_limit(type) ELSE sems[type][g]
       IN /\ queue' = Tail(queue)
          /\ enqueued' = enqueued \ {jid}
          /\ UNCHANGED <<now, stopEv, gen, tool_limit_values, workers, tools, stopping, restarts, returned, cvars>>
          /\ CASE d.verdict \in {"sentinel", "dropped"} ->
                  /\ pc' = [pc EXCEPT ![w] = LoopTop]
                  /\ last' = IF d.verdict = "dropped" THEN Obs("dequeue", jid, "dropped") ELSE NoObs
                  /\ UNCHANGED <<jobs, wjob, wsem, task, cancel_events, sems, delayTasks>>
               [] d.verdict = "deferred" ->
                  /\ delayTasks' = delayTasks \cup
                        {NewDelayTask(jid, now + Min(job.run_after_ts - now, DelaySleepCap))}
                  /\ pc' = [pc EXCEPT ![w] = LoopTop]
                  /\ last' = NoObs
                  /\ UNCHANGED <<jobs, wjob, wsem, task, cancel_events, sems>>
               [] d.verdict = "unknown_type" ->
                  /\ jobs' = update_job(d.jobs, jid, [status |-> "failed"])
                  /\ pc' = [pc EXCEPT ![w] = LoopTop]
                  /\ last' = NoObs
                  /\ UNCHANGED <<wjob, wsem, task, cancel_events, sems, delayTasks>>
               [] d.verdict = "claimed" ->
                  /\ jobs' = update_job(d.jobs, jid, [run_after_ts |-> 0])
                  /\ cancel_events' = [cancel_events EXCEPT ![jid] = "clear"]
                  /\ wjob' = [wjob EXCEPT ![w] = Snapshot(jid, d.jobs[jid])]
                  /\ wsem' = [wsem EXCEPT ![w] = g]
                  /\ last' = NoObs
                  /\ UNCHANGED delayTasks
                  /\ IF limit > 0
                     THEN /\ sems' = [sems EXCEPT ![type][g] = limit - 1]
                          /\ pc' = [pc EXCEPT ![w] = "run"]
                          /\ task' = [task EXCEPT ![w] = "exec"]
                     ELSE /\ sems' = [sems EXCEPT ![type][g] = limit]
                          /\ pc' = [pc EXCEPT ![w] = "sem"]
                          /\ UNCHANGED task

\* `async with sem` resumes once the semaphore has a free permit.
WorkerAcquire(w) ==
    /\ pc[w] = "sem"
    /\ sems[wjob[w].job_type][wsem[w]] > 0
    /\ sems' = [sems EXCEPT ![wjob[w].job_type][wsem[w]] = @ - 1]
    /\ pc' = [pc EXCEPT ![w] = "run"]
    /\ task' = [task EXCEPT ![w] = "exec"]
    /\ last' = NoObs
    /\ UNCHANGED <<jobs, now, queue, enqueued, stopEv, wjob, wsem, cancel_events, gen,
                   tool_limit_values, workers, tools, delayTasks, stopping, restarts, returned, cvars>>

\* The tool calls update_progress(p): check_job_cancelled raises JobCancelled,
\* which ends the tool task; otherwise the progress column is written.
ToolProgress(w) ==
    /\ pc[w] = "run" /\ task[w] = "exec"
    /\ IF is_job_cancelled(wjob[w].id)
       THEN /\ task' = [task EXCEPT ![w] = "job_cancelled"]
            /\ UNCHANGED jobs
       ELSE /\ jobs' = update_job(jobs, wjob[w].id, << >>)
            /\ UNCHANGED task
    /\ last' = NoObs
    /\ UNCHANGED <<now, queue, enqueued, stopEv, pc, wjob, wsem, cancel_events, sems, gen,
                   tool_limit_values, workers, tools, delayTasks, stopping, restarts, returned, cvars>>

\* ToolContext.check_job_cancelled as the tools receive it: main.py builds
\* tool_ctx from kb_retriever and get_neo4j only, so the callback is the
\* dataclass default `lambda _job_id: None`.  TRUE stands for "raises".
ctx_check_job_cancelled(jid) == FALSE

\* The kb_index tool reaches the start of a 128-id window or of a 32-input
\* sub-batch of index_embeddings and calls check_cancelled(): the call
\* raises, which ends the tool task, or returns and the batch is embedded.
ToolCheckpoint(w) ==
    /\ pc[w] = "run" /\ task[w] = "exec"
    /\ wjob[w].job_type = "kb_index"
    /\ IF ctx_check_job_cancelled(wjob[w].id)
       THEN /\ task' = [task EXCEPT ![w] = "raised"]
            /\ last' = Obs("check_cancelled", wjob[w].id, "raised")
       ELSE /\ UNCHANGED task
            /\ last' = Obs("check_cancelled", wjob[w].id, "next_batch")
    /\ UNCHANGED <<jobs, now, queue, enqueued, stopEv, pc, wjob, wsem, cancel_events, sems, gen,
                   tool_limit_values, workers, tools, delayTasks, stopping, restarts, returned, cvars>>

\* The tool task ends by itself: it returns a result ("ok"), returns
\* {"ok": False} ("not_ok") or raises an exception ("raised").
ToolEnds(w, how) ==
    /\ pc[w] = "run" /\ task[w] = "exec"
    /\ task' = [task EXCEPT ![w] = how]
    /\ last' = NoObs
    /\ UNCHANGED <<jobs, now, queue, enqueued, stopEv, pc, wjob, wsem, cancel_events, sems,
                   gen, tool_limit_values, workers, tools, delayTasks, stopping, restarts, returned, cvars>>

\* payload.timeout_seconds or the type's default timeout.
timeout_seconds(job) == DefaultTimeouts[job.job_type]

\* What the worker does with the outcome of the awaited task: the store
\* update of the matching branch of try/except; [jobs, st].
finish_result(job, outcome) ==
    LET st == [enqueued |-> enqueued, queue |-> queue]
        canceled == [jobs |-> update_job(jobs, job.id, [status |-> "canceled"]), st |-> st]
        failed == [jobs |-> update_job(jobs, job.id, [status |-> "failed"]), st |-> st]
        retry_or_fail == IF should_retry(job) THEN schedule_retry(jobs, st, job) ELSE failed
    IN CASE outcome = "ok" -> [jobs |-> update_job(jobs, job.id, [status |-> "succeeded"]), st |-> st]
         [] outcome = "not_ok" -> failed
         [] outcome = "job_cancelled" -> canceled
         [] outcome = "cancelled" -> canceled
         [] outcome = "timeout" -> retry_or_fail
         [] outcome = "raised" -> IF is_job_cancelled(job.id) THEN canceled ELSE retry_or_fail

\* The worker resumes from `await task` / `await asyncio.wait_for(task)`,
\* runs the branch for `outcome`, the finally block, and loops.
Finish(w, outcome) ==
    LET job == wjob[w]
        r == finish_result(job, outcome)
    IN /\ jobs' = r.jobs
       /\ enqueued' = r.st.enqueued
       /\ queue' = r.st.queue
       /\ sems' = [sems EXCEPT ![job.job_type][wsem[w]] = @ + 1]
       /\ cancel_events' = [cancel_events EXCEPT ![job.id] = "absent"]
       /\ task' = [task EXCEPT ![w] = "none"]
       /\ wjob' = [wjob EXCEPT ![w] = NoJob]
       /\ wsem' = [wsem EXCEPT ![w] = 0]
       /\ pc' = [pc EXCEPT ![w] = LoopTop]
       /\ last' = NoObs
       /\ UNCHANGED <<now, stopEv, gen, tool_limit_values, workers, tools, delayTasks, stopping, restarts, returned, cvars>>

WorkerFinish(w) ==
    /\ pc[w] = "run" /\ task[w] \in {"ok", "not_ok", "raised", "job_cancelled", "cancelled"}
    /\ Finish(w, task[w])

\* asyncio.wait_for gives up: the tool task is cancelled and TimeoutError raised.
WorkerTimeout(w) ==
    /\ pc[w] = "run" /\ task[w] = "exec"
    /\ timeout_seconds(wjob[w]) > 0
    /\ Finish(w, "timeout")

\* A _delay_enqueue task wakes up and enqueues its job.
DelayFire(d) ==
    /\ d \in delayTasks
    /\ now >= d.wake
    /\ delayTasks' = delayTasks \ {d}
    /\ LET st == enqueue([enqueued |-> enqueued, queue |-> queue], d.jid)
       IN enqueued' = st.enqueued /\ queue' = st.queue
    /\ last' = NoObs
    /\ UNCHANGED <<jobs, now, stopEv, pc, wjob, wsem, task, cancel_events, sems, gen,
                   tool_limit_values, workers, tools, stopping, restarts, returned, cvars>>

(***************************************************************************)
(* Lifecycle: the startup and shutdown hooks of main.py call start() and   *)
(* stop() one after the other, never concurrently; a crash ends the        *)
(* process and leaves only the jobs table.                                 *)
(***************************************************************************)
NoLiveWorker == \A w \in Workers : pc[w] \in {"none", "done"}

\* JobRunner.start (it contains no await): returns at once while a worker is
\* alive, else requeues, reloads the queue and creates the workers.
Start ==
    /\ ~stopping
    /\ NoLiveWorker
    /\ LET js == requeue_running_jobs(jobs)
           st == enqueue_all([enqueued |-> enqueued, queue |-> queue],
                             list_queued_job_ids(js, QueuedListLimit))
       IN /\ jobs' = js
          /\ enqueued' = st.enqueued
          /\ queue' = st.queue
    /\ stopEv' = FALSE
    /\ pc' = [w \in Workers |-> IF w <= workers THEN "get" ELSE "none"]
    /\ last' = Obs("start", Cardinality({j \in DOMAIN jobs : jobs[j].status = "running"}), "")
    /\ UNCHANGED <<now, wjob, wsem, task, cancel_events, sems, gen, tool_limit_values,
                   workers, tools, delayTasks, stopping, restarts, returned, cvars>>

\* JobRunner.stop up to its first `await t`: the stop flag, the sentinels,
\* the cancellation of the running tool tasks.
StopBegin ==
    /\ ~stopping
    /\ restarts < MaxRestarts
    /\ stopEv' = TRUE
    /\ queue' = queue \o [i \in 1..((IF \E w \in Workers : pc[w] # "none" THEN workers ELSE 0) + 1) |-> 0]
    /\ task' = [w \in Workers |-> IF pc[w] = "run" /\ task[w] = "exec" THEN "cancelled" ELSE task[w]]
    /\ stopping' = TRUE
    /\ restarts' = restarts + 1
    /\ last' = NoObs
    /\ UNCHANGED <<jobs, now, enqueued, pc, wjob, wsem, cancel_events, sems, gen,
                   tool_limit_values, workers, tools, delayTasks, returned, cvars>>

\* JobRunner.stop after every worker task has ended.
StopFinish ==
    /\ stopping
    /\ NoLiveWorker
    /\ pc' = [w \in Workers |-> "none"]
    /\ cancel_events' = [j \in DOMAIN cancel_events |-> "absent"]
    /\ enqueued' = {}
    /\ stopping' = FALSE
    /\ last' = NoObs
    /\ UNCHANGED <<jobs, now, queue, stopEv, wjob, wsem, task, sems, gen,
                   tool_limit_values, workers, tools, delayTasks, restarts, returned, cvars>>

\* The process dies and is started again: a new JobRunner over the same table.
Crash ==
    /\ restarts < MaxRestarts
    /\ restarts' = restarts + 1
    /\ queue' = <<>>
    /\ enqueued' = {}
    /\ stopEv' = FALSE
    /\ pc' = [w \in Workers |-> "none"]
    /\ wjob' = [w \in Workers |-> NoJob]
    /\ wsem' = [w \in Workers |-> 0]
    /\ task' = [w \in Workers |-> "none"]
    /\ cancel_events' = [j \in DOMAIN cancel_events |-> "absent"]
    /\ sems' = NoSems
    /\ gen' = 0
    /\ tool_limit_values' = DefaultToolLimits
    /\ delayTasks' = {}
    /\ stopping' = FALSE
    /\ last' = NoObs
    /\ UNCHANGED <<jobs, now, workers, tools, returned, cvars>>

\* JobRunner.configure(tool_limits=limits), default_timeouts not given.
Configure(limits) ==
    /\ gen < MaxConfigures
    /\ LET cleaned == [k \in DOMAIN limits |-> Max(1, Min(ToolLimitCap, limits[k]))]
       IN /\ DOMAIN cleaned # {}
          /\ tool_limit_values' = cleaned
          /\ gen' = gen + 1
    /\ last' = NoObs
    /\ UNCHANGED <<jobs, now, queue, enqueued, stopEv, pc, wjob, wsem, task, cancel_events,
                   sems, workers, tools, delayTasks, stopping, restarts, returned, cvars>>

\* JobRunner.set_tools after a plugin was enabled or disabled.
SetTools(names) ==
    /\ names # tools
    /\ tools' = names
    /\ last' = NoObs
    /\ UNCHANGED <<jobs, now, workers, restarts, returned, cvars>>
    /\ UNCHANGED runnerMem

ToolSetsIn == {ToolNames, ToolNames \ {"kg_extract"}}
ConfigureIn == {DefaultToolLimits}

\* Time passes.
Tick(t) ==
    /\ t > now
    /\ now' = t
    /\ last' = NoObs
    /\ UNCHANGED <<jobs, workers, tools, restarts, returned, cvars>>
    /\ UNCHANGED runnerMem

\* council._build_realtime_context for a turn of conversation conv: the job
\* summaries it fetches for the prompt (it contains no await after the fetch).
ContextBuild(conv) ==
    /\ LET r == fetch_injectable_summaries(jobs, conv, InjectLimit)
       IN /\ jobs' = r.jobs
          /\ returned' = [j \in DOMAIN returned |->
                            IF \E n \in DOMAIN r.items : r.items[n] = j
                            THEN returned[j] + 1 ELSE returned[j]]
    /\ last' = NoObs
    /\ UNCHANGED <<now, workers, tools, restarts, cvars>>
    /\ UNCHANGED runnerMem

(***************************************************************************)
(* The deliberation turn: backend/council.py stages 1 to 3 as the turn     *)
(* handler backend/main.py send_message runs them (serious mode, one       *)
(* round).  Numbers with decimals are kept as integers: influence_weight   *)
(* in hundredths, vote_weight in ten-thousandths (it is rounded to four    *)
(* decimals), average_rank in thousandths (rounded to three).              *)
(***************************************************************************)
InfluenceUnit == 100
WeightUnit == 10000
RankUnit == 1000

\* round(): n/d to the nearest integer, a tie to the even one (n >= 0, d > 0).
\* A binary float can fall on either side of a decimal tie.
RoundHalfEven(n, d) ==
    LET q == n \div d
        r == n % d
    IN IF 2 * r < d THEN q
       ELSE IF 2 * r > d THEN q + 1
       ELSE IF q % 2 = 0 THEN q ELSE q + 1

\* llm_client.parse_model_spec; a model spec "<provider>:<model>" is kept as
\* the pair of the texts before and after its first colon (<<"", m>> when it
\* has no colon).
parse_model_spec(spec) ==
    IF spec[1] = "" \/ spec[2] = ""
    THEN [provider |-> "openrouter", model |-> spec[2]]
    ELSE [provider |-> spec[1], model |-> spec[2]]

\* llm_client.provider_key_configured: "true", "false" or "none" (unknown).
provider_key_configured(provider) ==
    IF provider \in {"openrouter", "dashscope", "apiyi"}
    THEN (IF provider \in configured THEN "true" ELSE "false")
    ELSE IF provider = "ollama" THEN "true" ELSE "none"

AgentConfig(id, model_spec, enabled, influence_weight, seniority_years) ==
    [id |-> id, model_spec |-> model_spec, enabled |-> enabled,
     influence_weight |-> influence_weight, seniority_years |-> seniority_years]

\* council._agent_vote_weight, in WeightUnit, as Stage 2 rounds it.
agent_vote_weight(agent) ==
    RoundHalfEven(Max(0, agent.influence_weight) * (10 + Max(0, agent.seniority_years)) * WeightUnit,
                  10 * InfluenceUnit)

get_enabled_agents(ags) == SelectSeq(ags, LAMBDA a : a.enabled)

\* council._get_conversation_agents over the stores as they are now.
get_conversation_agents(ags, ids) ==
    LET enabled == get_enabled_agents(ags)
        enabled_ids == {enabled[i].id : i \in DOMAIN enabled}
        by_id(aid) == enabled[CHOOSE i \in DOMAIN enabled :
                                  /\ enabled[i].id = aid
                                  /\ \A k \in DOMAIN enabled : enabled[k].id = aid => k <= i]
        chosen == SelectSeq(ids, LAMBDA aid : aid \in enabled_ids)
        selected == [n \in DOMAIN chosen |-> by_id(chosen[n])]
    IN IF ids = <<>> THEN enabled
       ELSE IF selected # <<>> THEN selected ELSE enabled

\* agents_store.upsert_agent
upsert_agent(ags, agent) ==
    IF \E i \in DOMAIN ags : ags[i].id = agent.id
    THEN LET i == CHOOSE k \in DOMAIN ags :
                      ags[k].id = agent.id /\ \A m \in DOMAIN ags : ags[m].id = agent.id => k <= m
         IN [ags EXCEPT ![i] = agent]
    ELSE Append(ags, agent)

\* agents_store.delete_agent
delete_agent(ags, agent_id) == SelectSeq(ags, LAMBDA a : a.id # agent_id)

\* The text of a Stage 2 answer, kept as the "Response X" tokens a scan finds
\* in it: whether it holds the FINAL RANKING: marker, the numbered tokens after
\* the marker, all tokens after the marker, and all tokens of the text.
RankingText(marker, numbered, after, whole) ==
    [marker |-> marker, numbered |-> numbered, after |-> after, whole |-> whole]

NoText == RankingText(FALSE, <<>>, <<>>, <<>>)

\* How a gateway call (llm_client.query_model) ends: with a response of some
\* text, with None, or with an exception.
Content(text) == [kind |-> "content", text |-> text]
Null == [kind |-> "null", text |-> NoText]
Raise == [kind |-> "raise", text |-> NoText]

\* A call that has not ended, and the None that _query_agent returns.
Pending == [kind |-> "pending", text |-> NoText]
None == [kind |-> "none", text |-> NoText]

\* What council._query_agent returns for an outcome of the gateway call
\* query_model: the response, or None when the call returned None or raised.
query_agent_propagates(outcome) ==
    IF outcome.kind = "null" THEN None
    ELSE IF outcome.kind = "raise" THEN [kind |-> "raised", text |-> NoText]
    ELSE outcome

query_agent(outcome) ==
    IF outcome.kind = "null" \/ outcome.kind = "raise" THEN None ELSE outcome

\* council.parse_ranking_from_text
parse_ranking_from_text(text) ==
    IF text.marker
    THEN (IF text.numbered # <<>> THEN text.numbered ELSE text.after)
    ELSE text.whole

\* The words the pattern `Response [A-Z]` matches.
UpperLabels ==
    {"Response A", "Response B", "Response C", "Response D", "Response E", "Response F",
     "Response G", "Response H", "Response I", "Response J", "Response K", "Response L",
     "Response M", "Response N", "Response O", "Response P", "Response Q", "Response R",
     "Response S", "Response T", "Response U", "Response V", "Response W", "Response X",
     "Response Y", "Response Z"}

\* A text as the sequence of its parts that matter to the parser: the marker
\* FINAL RANKING:, and words, each with whether "<digits>." stands before it.
Marker == [kind |-> "marker", numbered |-> FALSE, word |-> ""]
Word(numbered, word) == [kind |-> "word", numbered |-> numbered, word |-> word]

\* What the scans of parse_ranking_from_text find in a text: split() at the
\* marker and parts[1], the `\d+\.\s*Response [A-Z]` matches in it, the
\* `Response [A-Z]` matches in it, and those of the whole text.
scan_text(tokens) ==
    LET markers == {i \in DOMAIN tokens : tokens[i].kind = "marker"}
        first == CHOOSE i \in markers : \A k \in markers : i <= k
        rest == markers \ {first}
        second == IF rest = {} THEN Len(tokens) + 1
                  ELSE CHOOSE i \in rest : \A k \in rest : i <= k
        section == IF markers = {} THEN <<>> ELSE SubSeq(tokens, first + 1, second - 1)
        labelled(ts) == SelectSeq(ts, LAMBDA t : t.kind = "word" /\ t.word \in UpperLabels)
        words(ts) == [i \in DOMAIN ts |-> ts[i].word]
    IN RankingText(markers # {},
                   words(SelectSeq(labelled(section), LAMBDA t : t.numbered)),
                   words(labelled(section)),
                   words(labelled(tokens)))

LabelNames == <<"Response A", "Response B", "Response C", "Response D">>

\* The Stage 1 records gather() yields: one per agent whose call answered.
stage1_records(ags, resp) ==
    LET idx == SelectSeq([i \in DOMAIN ags |-> i], LAMBDA i : resp[i].kind # "none")
    IN [n \in DOMAIN idx |->
          [agent_id |-> ags[idx[n]].id, model |-> ags[idx[n]].model_spec,
           influence_weight |-> ags[idx[n]].influence_weight,
           seniority_years |-> ags[idx[n]].seniority_years,
           response |-> resp[idx[n]].text]]

\* The label mapping stage2_collect_rankings builds from the Stage 1 records.
build_label_to_agent(s1) ==
    [l \in {LabelNames[i] : i \in DOMAIN s1} |->
        LET i == CHOOSE k \in DOMAIN s1 : LabelNames[k] = l
        IN [agent_id |-> s1[i].agent_id, model_spec |-> s1[i].model]]

stage2_records(ags, resp) ==
    LET idx == SelectSeq([i \in DOMAIN ags |-> i], LAMBDA i : resp[i].kind # "none")
    IN [n \in DOMAIN idx |->
          [agent_id |-> ags[idx[n]].id, model |-> ags[idx[n]].model_spec,
           influence_weight |-> ags[idx[n]].influence_weight,
           seniority_years |-> ags[idx[n]].seniority_years,
           vote_weight |-> agent_vote_weight(ags[idx[n]]),
           ranking |-> resp[idx[n]].text,
           parsed_ranking |-> parse_ranking_from_text(resp[idx[n]].text)]]

\* The weight calculate_aggregate_rankings gives a Stage 2 record:
\* float(vote_weight or 1.0).
vote_weight_used(ranking) ==
    IF ranking.vote_weight = 0 THEN WeightUnit ELSE ranking.vote_weight

\* The votes in the order the two loops of calculate_aggregate_rankings meet
\* them: a voter's labels that are not in the mapping are skipped but keep
\* their position.
RECURSIVE votes_from(_, _, _)
votes_from(s2, l2a, n) ==
    IF n > Len(s2) THEN <<>>
    ELSE LET pr == parse_ranking_from_text(s2[n].ranking)
             w == vote_weight_used(s2[n])
             known == SelectSeq([p \in DOMAIN pr |-> p], LAMBDA p : pr[p] \in DOMAIN l2a)
         IN [k \in DOMAIN known |->
                [model |-> l2a[pr[known[k]]].model_spec, position |-> known[k],
                 weight |-> w, voter |-> n]]
            \o votes_from(s2, l2a, n + 1)

RECURSIVE SumSeq(_)
SumSeq(ns) == IF ns = <<>> THEN 0 ELSE Head(ns) + SumSeq(Tail(ns))

VotesOf(vs, m) == SelectSeq(vs, LAMBDA v : v.model = m)

\* The keys of a dict in insertion order.
RECURSIVE first_seen(_)
first_seen(vs) ==
    IF vs = <<>> THEN <<>>
    ELSE LET before == first_seen(SubSeq(vs, 1, Len(vs) - 1))
             m == vs[Len(vs)].model
         IN IF \E i \in DOMAIN before : before[i] = m THEN before ELSE Append(before, m)

\* list.sort(key=average_rank): ascending and stable.
RECURSIVE sort_by_average_rank(_)
sort_by_average_rank(agg) ==
    IF agg = <<>> THEN <<>>
    ELSE LET sorted == sort_by_average_rank(SubSeq(agg, 1, Len(agg) - 1))
             e == agg[Len(agg)]
             k == Cardinality({i \in DOMAIN sorted : sorted[i].average_rank <= e.average_rank})
         IN SubSeq(sorted, 1, k) \o <<e>> \o SubSeq(sorted, k + 1, Len(sorted))

\* council.calculate_aggregate_rankings
calculate_aggregate_rankings(s2, l2a) ==
    LET vs == votes_from(s2, l2a, 1)
        ms == first_seen(vs)
        entry(m) ==
            LET mine == VotesOf(vs, m)
                weighted_sum == SumSeq([i \in DOMAIN mine |-> mine[i].position * mine[i].weight])
                total == SumSeq([i \in DOMAIN mine |-> mine[i].weight])
                total_w == IF total = 0 THEN WeightUnit ELSE total
            IN [model |-> m,
                average_rank |-> RoundHalfEven(weighted_sum * RankUnit, total_w),
                votes |-> Len(mine),
                total_vote_weight |-> RoundHalfEven(total_w * RankUnit, WeightUnit)]
    IN sort_by_average_rank([i \in DOMAIN ms |-> entry(ms[i])])

\* The global chairman model (agents_store.get_models()["chairman_model"]).
ChairmanSpec == <<"openrouter", "chair">>

\* next((a for a in agents if a.id == id), None) for a non-empty id: the
\* agent in a sequence of one, or the empty sequence for None.
agent_by_id(ags, id) ==
    LET hits == SelectSeq(ags, LAMBDA a : a.id = id)
    IN IF id # "" /\ hits # <<>> THEN <<hits[1]>> ELSE <<>>

\* `_get_conversation_chairman_model(conversation_id) or models["chairman_model"]`
conversation_chairman_spec(cm) == IF cm # NoSpec THEN cm ELSE ChairmanSpec

\* A choice of the chairman's model that ignores the chairman agent.
spec_without_agent(ags, caid, cm) == conversation_chairman_spec(cm)

\* council.stage3_synthesize_final: chairman_spec, which is the model_spec of
\* the agent its _query_agent call is given (the agent of that id, else an
\* agent of that model_spec, else AgentConfig(id="chairman")).
stage3_chairman_spec(ags, caid, cm) ==
    LET chairman_agent == agent_by_id(ags, caid)
    IN IF chairman_agent # <<>> THEN chairman_agent[1].model_spec
       ELSE conversation_chairman_spec(cm)

\* council.stage4_generate_report: the model_spec of the agent its
\* _query_agent call is given (the agent of id caid, else an agent whose
\* model_spec is chairman_spec, else AgentConfig(id="report")).
stage4_writer_spec(ags, caid, cm) ==
    LET chairman_spec == conversation_chairman_spec(cm)
        chairman_agent == agent_by_id(ags, caid)
    IN IF chairman_agent # <<>> THEN chairman_agent[1].model_spec ELSE chairman_spec

\* council.stage3_synthesize_final once the chairman call has ended.
stage3_synthesize_final(chairman_spec, resp) ==
    IF resp.kind = "none"
    THEN [model |-> chairman_spec, response |-> "Error: Unable to generate final synthesis.",
          providers |-> {}]
    ELSE [model |-> chairman_spec, response |-> "content", providers |-> {}]

\* The result council.run_full_council gives when Stage 1 is empty, cas being
\* the conversation's agents as it reads them then; providers are those its
\* message names.  No turn handler of main.py calls run_full_council.
run_full_council_error(cas) ==
    LET missing == {parse_model_spec(cas[i].model_spec).provider : i \in
                       {k \in DOMAIN cas :
                           provider_key_configured(parse_model_spec(cas[k].model_spec).provider) = "false"}}
    IN IF missing # {}
       THEN [model |-> <<"", "error">>, response |-> "No model responded successfully. Missing API key(s)",
             providers |-> missing]
       ELSE [model |-> <<"", "error">>, response |-> "All models failed to respond. Please try again.",
             providers |-> {}]

runnerVars == <<jobs, now, queue, enqueued, stopEv, pc, wjob, wsem, task, cancel_events,
                sems, gen, tool_limit_values, workers, tools, delayTasks, stopping, restarts,
                last, returned>>

\* What a turn does not write: the runner, the settings and the chairman
\* choice of the conversation.
turnFrame == <<runnerVars, settings, doc_ids, chairman_agent_id, chairman_model, lvars, kvars,
               svars>>

\* A dispatched call: the model_spec of the agent given to _query_agent and
\* what _query_agent returned.
Call(model, resp) == [model |-> model, resp |-> resp]

\* trace_append of a stage event.
Event(type, stage) == <<type, stage>>

\* `await asyncio.gather(...)` returns: every task has ended, or one raised.
first_returns(resp) == \E i \in DOMAIN resp : resp[i].kind # "pending"

gather_returns(resp) ==
    \/ \E i \in DOMAIN resp : resp[i].kind = "raised"
    \/ \A i \in DOMAIN resp : resp[i].kind # "pending"

\* stage0_preprocess goes as far as its call: preprocessing is on and the
\* conversation has a document with text.
runs_preprocess == settings.enable_preprocess /\ doc_ids > 0

\* `rounds` of stage2b_roundtable.
roundtable_rounds(s) ==
    Max(0, Min(3, IF s.roundtable_rounds = 0 THEN 1 ELSE s.roundtable_rounds))

\* stage2b_roundtable goes as far as its first gather().
runs_roundtable(cas) ==
    settings.enable_roundtable /\ cas # <<>> /\ roundtable_rounds(settings) > 0

\* The stage whose call the turn awaits next, after Stage 2B and after
\* Stage 3: a stage that is switched off returns without suspending.
after_roundtable == IF settings.enable_fact_check THEN "stage2c" ELSE "stage3"

after_stage3 == IF settings.enable_report_generation THEN "stage4" ELSE "done"

\* The turn goes on to position pos, one of stage2c, stage3, stage4 and done,
\* c and t being the calls and the trace so far: the stage emits stage_start
\* and dispatches its one call.
Goto(pos, c, t) ==
    /\ tpc' = pos
    /\ calls' =
          IF pos = "stage2c"
          THEN [c EXCEPT !.stage2c = <<Call(conversation_chairman_spec(chairman_model), Pending)>>]
          ELSE IF pos = "stage3"
          THEN [c EXCEPT !.stage3 = <<Call(stage3_chairman_spec(agents, chairman_agent_id, chairman_model), Pending)>>]
          ELSE IF pos = "stage4"
          THEN [c EXCEPT !.stage4 = <<Call(stage4_writer_spec(agents, chairman_agent_id, chairman_model), Pending)>>]
          ELSE c
    /\ trace' = IF pos = "done" THEN t ELSE Append(t, Event("stage_start", pos))

\* stage1_collect_responses up to its gather(): the agent list is read.
EnterStage1(t) ==
    /\ s1_agents' = get_conversation_agents(agents, agent_ids)
    /\ s1_resp' = [i \in DOMAIN s1_agents' |-> Pending]
    /\ tpc' = "stage1"
    /\ trace' = Append(t, Event("stage_start", "stage1"))

\* send_message up to the call of stage0_preprocess.
Stage0Start ==
    /\ tpc = "idle"
    /\ runs_preprocess
    /\ tpc' = "stage0"
    /\ calls' = [calls EXCEPT !.stage0 = <<Call(conversation_chairman_spec(chairman_model), Pending)>>]
    /\ trace' = Append(trace, Event("stage_start", "stage0"))
    /\ UNCHANGED <<agents, agent_ids, configured, s1_agents, s1_resp, stage1_results, s2_agents,
                   s2_resp, label_to_agent, stage2_results, aggregate_rankings, stage3_result,
                   rt_agents, rt_round, roundtable>>
    /\ UNCHANGED turnFrame

\* The call of stage0_preprocess ends; Stage 1 starts.
Stage0Call(outcome) ==
    /\ tpc = "stage0"
    /\ calls' = [calls EXCEPT !.stage0[1].resp = query_agent(outcome)]
    /\ EnterStage1(Append(trace, Event("stage_complete", "stage0")))
    /\ UNCHANGED <<agents, agent_ids, configured, stage1_results, s2_agents,
                   s2_resp, label_to_agent, stage2_results, aggregate_rankings, stage3_result,
                   rt_agents, rt_round, roundtable>>
    /\ UNCHANGED turnFrame

\* send_message when stage0_preprocess returns None at once: Stage 1 starts.
Stage1Start ==
    /\ tpc = "idle"
    /\ ~runs_preprocess
    /\ EnterStage1(trace)
    /\ UNCHANGED <<agents, agent_ids, configured, stage1_results, s2_agents, s2_resp,
                   label_to_agent, stage2_results, aggregate_rankings, stage3_result,
                   calls, rt_agents, rt_round, roundtable>>
    /\ UNCHANGED turnFrame

\* The gateway call of Stage 1 agent i ends and run_one returns.
Stage1Call(i, outcome) ==
    /\ tpc = "stage1"
    /\ i \in DOMAIN s1_resp
    /\ s1_resp[i].kind = "pending"
    /\ s1_resp' = [s1_resp EXCEPT ![i] = query_agent(outcome)]
    /\ UNCHANGED <<agents, agent_ids, configured, tpc, s1_agents, stage1_results, s2_agents,
                   s2_resp, label_to_agent, stage2_results, aggregate_rankings, stage3_result,
                   calls, rt_agents, rt_round, roundtable, trace>>
    /\ UNCHANGED turnFrame

\* gather() of Stage 1 ends: the records are built and, with no await in
\* between, stage2_collect_rankings reads the agent list and labels the
\* records.  An exception of a run_one leaves gather() and the stage.
Stage1Collect ==
    /\ tpc = "stage1"
    /\ gather_returns(s1_resp)
    /\ IF \E i \in DOMAIN s1_resp : s1_resp[i].kind = "raised"
       THEN /\ tpc' = "raised"
            /\ UNCHANGED <<stage1_results, s2_agents, s2_resp, label_to_agent, trace>>
       ELSE /\ stage1_results' = stage1_records(s1_agents, s1_resp)
            /\ s2_agents' = get_conversation_agents(agents, agent_ids)
            /\ s2_resp' = [i \in DOMAIN s2_agents' |-> Pending]
            /\ label_to_agent' = build_label_to_agent(stage1_results')
            /\ tpc' = "stage2"
            /\ trace' = trace \o <<Event("stage_complete", "stage1"), Event("stage_start", "stage2")>>
    /\ UNCHANGED <<agents, agent_ids, configured, s1_agents, s1_resp, stage2_results,
                   aggregate_rankings, stage3_result, calls, rt_agents, rt_round, roundtable>>
    /\ UNCHANGED turnFrame

\* The gateway call of Stage 2 agent i ends.
Stage2Call(i, outcome) ==
    /\ tpc = "stage2"
    /\ i \in DOMAIN s2_resp
    /\ s2_resp[i].kind = "pending"
    /\ s2_resp' = [s2_resp EXCEPT ![i] = query_agent(outcome)]
    /\ UNCHANGED <<agents, agent_ids, configured, tpc, s1_agents, s1_resp, stage1_results,
                   s2_agents, label_to_agent, stage2_results, aggregate_rankings, stage3_result,
                   calls, rt_agents, rt_round, roundtable, trace>>
    /\ UNCHANGED turnFrame

\* gather() of Stage 2 ends: the records are built, send_message computes the
\* aggregate ranking and goes on to the roundtable, or past it to the fact
\* check, or past that to the chairman call.
Stage2Collect ==
    /\ tpc = "stage2"
    /\ gather_returns(s2_resp)
    /\ IF \E i \in DOMAIN s2_resp : s2_resp[i].kind = "raised"
       THEN /\ tpc' = "raised"
            /\ UNCHANGED <<stage2_results, aggregate_rankings, calls, rt_agents, rt_round, trace>>
       ELSE /\ stage2_results' = stage2_records(s2_agents, s2_resp)
            /\ aggregate_rankings' = calculate_aggregate_rankings(stage2_results', label_to_agent)
            /\ LET cas == get_conversation_agents(agents, agent_ids)
                   t == Append(trace, Event("stage_complete", "stage2"))
               IN IF runs_roundtable(cas)
                  THEN /\ tpc' = "stage2b"
                       /\ rt_agents' = cas
                       /\ rt_round' = 1
                       /\ calls' = [calls EXCEPT !.stage2b =
                                       [i \in DOMAIN cas |-> Call(cas[i].model_spec, Pending)]]
                       /\ trace' = Append(t, Event("stage_start", "stage2b"))
                  ELSE /\ Goto(after_roundtable, calls, t)
                       /\ UNCHANGED <<rt_agents, rt_round>>
    /\ UNCHANGED <<agents, agent_ids, configured, s1_agents, s1_resp, stage1_results,
                   s2_agents, s2_resp, label_to_agent, stage3_result, roundtable>>
    /\ UNCHANGED turnFrame

\* The gateway call of roundtable agent i ends.
Stage2bCall(i, outcome) ==
    /\ tpc = "stage2b"
    /\ i \in DOMAIN calls.stage2b
    /\ calls.stage2b[i].resp.kind = "pending"
    /\ calls' = [calls EXCEPT !.stage2b[i].resp = query_agent(outcome)]
    /\ UNCHANGED <<agents, agent_ids, configured, tpc, s1_agents, s1_resp, stage1_results,
                   s2_agents, s2_resp, label_to_agent, stage2_results, aggregate_rankings,
                   stage3_result, rt_agents, rt_round, roundtable, trace>>
    /\ UNCHANGED turnFrame

\* gather() of a roundtable round ends: `out` is replaced by the messages of
\* this round, and the next round starts or the stage returns.
Stage2bCollect ==
    /\ tpc = "stage2b"
    /\ gather_returns([i \in DOMAIN calls.stage2b |-> calls.stage2b[i].resp])
    /\ LET spoke == SelectSeq([i \in DOMAIN rt_agents |-> i],
                              LAMBDA i : calls.stage2b[i].resp.kind # "none")
       IN roundtable' = [n \in DOMAIN spoke |-> rt_agents[spoke[n]].id]
    /\ IF rt_round < roundtable_rounds(settings)
       THEN /\ rt_round' = rt_round + 1
            /\ calls' = [calls EXCEPT !.stage2b =
                            [i \in DOMAIN rt_agents |-> Call(rt_agents[i].model_spec, Pending)]]
            /\ UNCHANGED <<tpc, trace>>
       ELSE /\ Goto(after_roundtable, calls, Append(trace, Event("stage_complete", "stage2b")))
            /\ UNCHANGED rt_round
    /\ UNCHANGED <<agents, agent_ids, configured, s1_agents, s1_resp, stage1_results,
                   s2_agents, s2_resp, label_to_agent, stage2_results, aggregate_rankings,
                   stage3_result, rt_agents>>
    /\ UNCHANGED turnFrame

\* The call of stage2c_fact_check ends; the chairman call is dispatched.
Stage2cCall(outcome) ==
    /\ tpc = "stage2c"
    /\ Goto("stage3", [calls EXCEPT !.stage2c[1].resp = query_agent(outcome)],
            Append(trace, Event("stage_complete", "stage2c")))
    /\ UNCHANGED <<agents, agent_ids, configured, s1_agents, s1_resp, stage1_results,
                   s2_agents, s2_resp, label_to_agent, stage2_results, aggregate_rankings,
                   stage3_result, rt_agents, rt_round, roundtable>>
    /\ UNCHANGED turnFrame

\* The chairman call ends: the turn's result is built and the report call is
\* dispatched, or send_message returns.
Stage3Call(outcome) ==
    /\ tpc = "stage3"
    /\ IF query_agent(outcome).kind = "raised"
       THEN tpc' = "raised" /\ UNCHANGED <<stage3_result, calls, trace>>
       ELSE /\ stage3_result' = stage3_synthesize_final(calls.stage3[1].model, query_agent(outcome))
            /\ Goto(after_stage3, [calls EXCEPT !.stage3[1].resp = query_agent(outcome)],
                    Append(trace, Event("stage_complete", "stage3")))
    /\ UNCHANGED <<agents, agent_ids, configured, s1_agents, s1_resp, stage1_results,
                   s2_agents, s2_resp, label_to_agent, stage2_results, aggregate_rankings,
                   rt_agents, rt_round, roundtable>>
    /\ UNCHANGED turnFrame

\* The report call ends and send_message returns.
Stage4Call(outcome) ==
    /\ tpc = "stage4"
    /\ Goto("done", [calls EXCEPT !.stage4[1].resp = query_agent(outcome)],
            Append(trace, Event("stage_complete", "stage4")))
    /\ UNCHANGED <<agents, agent_ids, configured, s1_agents, s1_resp, stage1_results,
                   s2_agents, s2_resp, label_to_agent, stage2_results, aggregate_rankings,
                   stage3_result, rt_agents, rt_round, roundtable>>
    /\ UNCHANGED turnFrame

\* Another request: PUT of an agent (main.py -> agents_store.upsert_agent).
UpsertAgent(agent) ==
    /\ agents' = upsert_agent(agents, agent)
    /\ agents' # agents
    /\ UNCHANGED <<agent_ids, configured, tpc, s1_agents, s1_resp, stage1_results, s2_agents,
                   s2_resp, label_to_agent, stage2_results, aggregate_rankings, stage3_result,
                   calls, rt_agents, rt_round, roundtable, trace>>
    /\ UNCHANGED turnFrame

\* Another request: DELETE of an agent (agents_store.delete_agent).
DeleteAgent(agent_id) ==
    /\ \E i \in DOMAIN agents : agents[i].id = agent_id
    /\ agents' = delete_agent(agents, agent_id)
    /\ UNCHANGED <<agent_ids, configured, tpc, s1_agents, s1_resp, stage1_results, s2_agents,
                   s2_resp, label_to_agent, stage2_results, aggregate_rankings, stage3_result,
                   calls, rt_agents, rt_round, roundtable, trace>>
    /\ UNCHANGED turnFrame

\* main.set_conversation_chairman: what the conversation holds after the two
\* writes of the handler.
set_chairman_keeps_model(cm, request_agent_id, request_model) ==
    IF request_agent_id # ""
    THEN [chairman_agent_id |-> request_agent_id, chairman_model |-> cm]
    ELSE [chairman_agent_id |-> "", chairman_model |-> request_model]

set_conversation_chairman(cm, request_agent_id, request_model) ==
    IF request_agent_id # ""
    THEN [chairman_agent_id |-> request_agent_id, chairman_model |-> NoSpec]
    ELSE [chairman_agent_id |-> "", chairman_model |-> request_model]

\* Another request: PUT /api/conversations/{id}/chairman.
SetConversationChairman(request_agent_id, request_model) ==
    /\ chairman_agent_id' =
          set_conversation_chairman(chairman_model, request_agent_id, request_model).chairman_agent_id
    /\ chairman_model' =
          set_conversation_chairman(chairman_model, request_agent_id, request_model).chairman_model
    /\ <<chairman_agent_id', chairman_model'>> # <<chairman_agent_id, chairman_model>>
    /\ UNCHANGED <<agents, agent_ids, configured, tpc, s1_agents, s1_resp, stage1_results,
                   s2_agents, s2_resp, label_to_agent, stage2_results, aggregate_rankings,
                   stage3_result, calls, rt_agents, rt_round, roundtable, trace>>
    /\ UNCHANGED <<runnerVars, settings, doc_ids, lvars, kvars, svars>>

(***************************************************************************)
(* The lively discussion: council.stage2b_lively.                          *)
(***************************************************************************)
\* A gateway response whose content is empty or blank.
Blank == [kind |-> "blank", text |-> NoText]

\* `content = str((resp or {}).get("content") or "").strip()` is not empty.
has_content(resp) == resp.kind = "content"

\* `max(6, min(200, int(max_messages or 24)))` and
\* `max(1, min(50, int(max_turns or 6)))`
clamp_max_messages(n) == Max(6, Min(200, IF n = 0 THEN 24 ELSE n))

clamp_max_turns(n) == Max(1, Min(50, IF n = 0 THEN 6 ELSE n))

\* A checkpoint interval without the lower bound of 4.
checkpoint_every_unclamped(ags) == Min(10, Len(ags) + 1)

\* `checkpoint_every = max(4, min(10, len(agents) + 1))`
checkpoint_every(ags) == Max(4, Min(10, Len(ags) + 1))

\* A sequence without the later repeats of its members.
unique(s) ==
    LET idx == SelectSeq([i \in DOMAIN s |-> i], LAMBDA i : \A k \in 1..(i - 1) : s[k] # s[i])
    IN [n \in DOMAIN idx |-> s[idx[n]]]

\* council._pick_default_leaders
pick_default_leaders(ags, k) == SubSeq(ags, 1, Max(1, Min(k, Len(ags))))

\* council._extract_leader_ids over the leaders the chairman's JSON names.
extract_leader_ids(raw, ags, max_leaders) ==
    LET chosen == unique(SelectSeq(raw, LAMBDA x : \E i \in DOMAIN ags : ags[i] = x))
    IN SubSeq(chosen, 1, Min(max_leaders, Len(chosen)))

\* leader_pick["leaders"] of council._chairman_pick_lively_leaders, then
\* `leader_ids` of stage2b_lively.
chairman_pick_lively_leaders(raw, ags) ==
    LET named == extract_leader_ids(raw, ags, Min(3, Len(ags)))
        leaders == IF named = <<>> THEN pick_default_leaders(ags, Min(2, Len(ags))) ELSE named
        kept == SelectSeq(leaders, LAMBDA x : \E i \in DOMAIN ags : ags[i] = x)
    IN IF kept = <<>> THEN pick_default_leaders(ags, 1) ELSE kept

\* `action = str(data.get("action") or "continue")`
chairman_action(act) == IF act = "" THEN "continue" ELSE act

\* `last_id` of the free-flow loop.
last_id(t) == IF t = <<>> THEN "" ELSE t[Len(t)]

\* _pick_next_agent: the list is rotated until its former head differs from
\* last_id, at most len(agents) + 1 times.
RECURSIVE rotate_to_next(_, _, _)
rotate_to_next(ags, lid, n) ==
    IF n = 0 THEN [agents |-> ags, agent |-> ags[1]]
    ELSE LET a == Head(ags)
             rotated == Append(Tail(ags), a)
         IN IF a # lid THEN [agents |-> rotated, agent |-> a]
            ELSE rotate_to_next(rotated, lid, n - 1)

\* A rotation that takes the head of the list whoever spoke last.
pick_head(ags, lid) == [agents |-> Append(Tail(ags), Head(ags)), agent |-> Head(ags)]

pick_next_agent(ags, lid) == rotate_to_next(ags, lid, Len(ags) + 1)

\* `len(transcript) < max_messages`, the test before every append.
always_room(t, mm) == TRUE

has_room(t, mm) == Len(t) < mm

IndexOf(s, x) == CHOOSE i \in DOMAIN s : s[i] = x

Waits(pos, who, ags) == [lpc |-> pos, speaker |-> who, agents |-> ags]

\* Where stage2b_lively suspends next, the transcript being t and the
\* agents in the order ags: in the free-flow loop,
free_flow(t, ags, mm) ==
    IF has_room(t, mm)
    THEN LET p == pick_next_agent(ags, last_id(t)) IN Waits("chat", p.agent, p.agents)
    ELSE Waits("done", "", ags)

\* in Phase D from its i-th agent on,
followers_from(i, t, ags, leaders, mm) ==
    LET todo == {k \in i..Len(ags) : \A n \in DOMAIN leaders : leaders[n] # ags[k]}
    IN IF todo = {} \/ ~has_room(t, mm) THEN free_flow(t, ags, mm)
       ELSE Waits("follow", ags[CHOOSE k \in todo : \A j \in todo : k <= j], ags)

\* in Phase C from its i-th leader on,
leaders_from(i, t, ags, leaders, mm) ==
    IF i <= Len(leaders) /\ has_room(t, mm) THEN Waits("leaders", leaders[i], ags)
    ELSE followers_from(1, t, ags, leaders, mm)

\* in Phase A from its i-th agent on.
warmup_from(i, t, ags, mm) ==
    IF i <= Len(ags) /\ has_room(t, mm) THEN Waits("warmup", ags[i], ags)
    ELSE Waits("pick", "", ags)

\* The stage runs on to `next` with transcript t; it emits stage_complete
\* when it returns.
LivelyGoes(next, t, tr) ==
    /\ lpc' = next.lpc
    /\ speaker' = next.speaker
    /\ lively_agents' = next.agents
    /\ transcript' = t
    /\ trace' = IF next.lpc = "done" THEN Append(tr, Event("stage_complete", "stage2b_lively"))
                ELSE tr

\* What the lively stage does not write.
livelyFrame == <<runnerVars, agents, agent_ids, configured, tpc, s1_agents, s1_resp,
                 stage1_results, s2_agents, s2_resp, label_to_agent, stage2_results,
                 aggregate_rankings, stage3_result, settings, doc_ids, chairman_agent_id,
                 chairman_model, calls, rt_agents, rt_round, roundtable, kvars, svars>>

\* send_message in lively mode calls stage2b_lively, the user's message being
\* blank or not: up to the first warm-up call.
LivelyStart(blank, messages_in, turns_in) ==
    /\ lpc = "idle"
    /\ LET cas == get_conversation_agents(agents, agent_ids)
           ids == [i \in DOMAIN cas |-> cas[i].id]
           started == Append(trace, Event("stage_start", "stage2b_lively"))
       IN IF cas = <<>>
          THEN /\ lpc' = "done"
               /\ UNCHANGED <<lively_agents, speaker, transcript, max_messages, max_turns, trace>>
          ELSE /\ max_messages' = clamp_max_messages(messages_in)
               /\ max_turns' = clamp_max_turns(turns_in)
               /\ IF blank
                  THEN /\ lpc' = "done"
                       /\ trace' = started
                       /\ UNCHANGED <<lively_agents, speaker, transcript>>
                  ELSE LivelyGoes(warmup_from(1, <<>>, ids, max_messages'), <<>>, started)
    /\ UNCHANGED <<leader_ids, since_checkpoint, turns_used, action, silent>>
    /\ UNCHANGED livelyFrame

\* The warm-up call of an agent ends.
WarmupCall(outcome) ==
    /\ lpc = "warmup"
    /\ LET resp == query_agent(outcome)
           t == IF has_content(resp) THEN Append(transcript, speaker) ELSE transcript
       IN /\ LivelyGoes(warmup_from(IndexOf(lively_agents, speaker) + 1, t, lively_agents,
                                    max_messages), t, trace)
          /\ silent' = (silent \/ ~has_content(resp))
    /\ UNCHANGED <<leader_ids, since_checkpoint, turns_used, max_messages, max_turns, action>>
    /\ UNCHANGED livelyFrame

\* The chairman's leader pick ends, its JSON naming the leaders `raw`: the
\* chairman's note is appended and the first leader is called.
LeaderPick(outcome, raw) ==
    /\ lpc = "pick"
    /\ LET resp == query_agent(outcome)
           leaders == chairman_pick_lively_leaders(IF has_content(resp) THEN raw ELSE <<>>,
                                                   lively_agents)
           t == IF has_room(transcript, max_messages) THEN Append(transcript, "") ELSE transcript
       IN /\ leader_ids' = leaders
          /\ LivelyGoes(leaders_from(1, t, lively_agents, leaders, max_messages), t, trace)
          /\ silent' = (silent \/ ~has_content(resp))
    /\ UNCHANGED <<since_checkpoint, turns_used, max_messages, max_turns, action>>
    /\ UNCHANGED livelyFrame

\* The opening call of a leader ends.
LeaderCall(outcome) ==
    /\ lpc = "leaders"
    /\ LET resp == query_agent(outcome)
           t == IF has_content(resp) THEN Append(transcript, speaker) ELSE transcript
       IN /\ LivelyGoes(leaders_from(IndexOf(leader_ids, speaker) + 1, t, lively_agents,
                                     leader_ids, max_messages), t, trace)
          /\ silent' = (silent \/ ~has_content(resp))
    /\ UNCHANGED <<leader_ids, since_checkpoint, turns_used, max_messages, max_turns, action>>
    /\ UNCHANGED livelyFrame

\* The call of an agent that is not a leader ends.
FollowCall(outcome) ==
    /\ lpc = "follow"
    /\ LET resp == query_agent(outcome)
           t == IF has_content(resp) THEN Append(transcript, speaker) ELSE transcript
       IN /\ LivelyGoes(followers_from(IndexOf(lively_agents, speaker) + 1, t, lively_agents,
                                       leader_ids, max_messages), t, trace)
          /\ silent' = (silent \/ ~has_content(resp))
    /\ UNCHANGED <<leader_ids, since_checkpoint, turns_used, max_messages, max_turns, action>>
    /\ UNCHANGED livelyFrame

\* A call of the free-flow loop ends: the message is appended, and at a
\* checkpoint the stage returns or asks the chairman.
ChatCall(outcome) ==
    /\ lpc = "chat"
    /\ LET resp == query_agent(outcome)
           t == IF has_content(resp) THEN Append(transcript, speaker) ELSE transcript
           sc == IF has_content(resp) THEN since_checkpoint + 1 ELSE since_checkpoint
       IN /\ silent' = (silent \/ ~has_content(resp))
          /\ IF sc >= checkpoint_every(lively_agents)
             THEN /\ since_checkpoint' = 0
                  /\ turns_used' = turns_used + 1
                  /\ IF turns_used' >= max_turns
                     THEN LivelyGoes(Waits("done", "", lively_agents), t, trace)
                     ELSE LivelyGoes(Waits("decide", "", lively_agents), t, trace)
             ELSE /\ since_checkpoint' = sc
                  /\ UNCHANGED turns_used
                  /\ LivelyGoes(free_flow(t, lively_agents, max_messages), t, trace)
    /\ UNCHANGED <<leader_ids, max_messages, max_turns, action>>
    /\ UNCHANGED livelyFrame

\* The chairman's checkpoint call ends, its JSON giving `act` and a note or
\* none.
ChairmanDecide(outcome, act, note) ==
    /\ lpc = "decide"
    /\ LET resp == query_agent(outcome)
           t == IF has_content(resp) /\ note /\ has_room(transcript, max_messages)
                THEN Append(transcript, "") ELSE transcript
       IN /\ action' = chairman_action(IF has_content(resp) THEN act ELSE "")
          /\ silent' = (silent \/ ~has_content(resp))
          /\ IF action' = "converge"
             THEN LivelyGoes(Waits("done", "", lively_agents), t, trace)
             ELSE LivelyGoes(free_flow(t, lively_agents, max_messages), t, trace)
    /\ UNCHANGED <<leader_ids, since_checkpoint, turns_used, max_messages, max_turns>>
    /\ UNCHANGED livelyFrame

(***************************************************************************)
(* The knowledge base and KBHybridRetriever.search in "fts" mode without   *)
(* rerank, which does not suspend.                                         *)
(***************************************************************************)
\* `int(getattr(self.kb, "revision", 0))`: KBStore has no attribute named
\* revision, in its class or set by any of its methods.
kb_revision(docs) == 0

\* The cache key of search(): the revision and the parameters of the call.
cache_key(docs, query) == <<kb_revision(docs), query>>

\* KBStore.search: which documents the full-text index finds for a query.
fts_match(doc, query) ==
    \/ doc = "d1" /\ query = "q1"
    \/ doc = "d2"
    \/ doc = "d3" /\ query = "q2"

kb_search(docs, query) == {d \in docs : fts_match(d, query)}

kbFrame == <<runnerVars, agents, agent_ids, configured, tpc, s1_agents, s1_resp,
             stage1_results, s2_agents, s2_resp, label_to_agent, stage2_results,
             aggregate_rankings, stage3_result, pvars, lvars, svars>>

\* KBStore.add_document of a new document id.
AddDocument(doc) ==
    /\ doc \notin kb_docs
    /\ kb_docs' = kb_docs \cup {doc}
    /\ stale_keys' = DOMAIN search_cache
    /\ UNCHANGED <<search_cache, last_search>>
    /\ UNCHANGED kbFrame

\* KBStore.delete_document
DeleteDocument(doc) ==
    /\ doc \in kb_docs
    /\ kb_docs' = kb_docs \ {doc}
    /\ stale_keys' = DOMAIN search_cache
    /\ UNCHANGED <<search_cache, last_search>>
    /\ UNCHANGED kbFrame

\* KBHybridRetriever.search(query=..., mode="fts", enable_rerank=False)
Search(query) ==
    LET key == cache_key(kb_docs, query)
        hits == kb_search(kb_docs, query)
    IN /\ IF query = ""
          THEN /\ last_search' = [query |-> query, hits |-> {}, cached |-> FALSE, stale |-> FALSE]
               /\ UNCHANGED <<search_cache, stale_keys>>
          ELSE IF key \in DOMAIN search_cache
          THEN /\ last_search' = [query |-> query, hits |-> search_cache[key], cached |-> TRUE,
                                  stale |-> key \in stale_keys]
               /\ UNCHANGED <<search_cache, stale_keys>>
          ELSE /\ last_search' = [query |-> query, hits |-> hits, cached |-> FALSE, stale |-> FALSE]
               /\ IF hits = {}
                  THEN UNCHANGED <<search_cache, stale_keys>>
                  ELSE /\ search_cache' = [k \in DOMAIN search_cache \cup {key} |->
                                              IF k = key THEN hits ELSE search_cache[k]]
                       /\ stale_keys' = stale_keys \ {key}
       /\ UNCHANGED kb_docs
       /\ UNCHANGED kbFrame

\* ttl_seconds (90 s) have passed since an entry was stored: TTLCache.get
\* drops it.
CacheExpire(key) ==
    /\ key \in DOMAIN search_cache
    /\ search_cache' = [k \in DOMAIN search_cache \ {key} |-> search_cache[k]]
    /\ stale_keys' = stale_keys \ {key}
    /\ UNCHANGED <<kb_docs, last_search>>
    /\ UNCHANGED kbFrame

(***************************************************************************)
(* The embeddings table of the knowledge base (backend/kb_store.py).       *)
(* kb_chunk_embeddings has chunk_id as its PRIMARY KEY; model_spec is an   *)
(* ordinary column with an index.                                          *)
(***************************************************************************)
\* What no action of the embeddings table writes.
storesFrame == <<runnerVars, agents, agent_ids, configured, tpc, s1_agents, s1_resp,
                 stage1_results, s2_agents, s2_resp, label_to_agent, stage2_results,
                 aggregate_rankings, stage3_result, pvars, lvars, kvars>>

\* KBStore.set_chunk_embeddings: one INSERT per item,
\* ON CONFLICT(chunk_id) DO UPDATE SET model_spec, vector_json, created_at.
set_chunk_embeddings(table, items, model_spec) ==
    [c \in DOMAIN table \cup DOMAIN items |->
        IF c \in DOMAIN items
        THEN [model_spec |-> model_spec, vector |-> items[c]]
        ELSE table[c]]

\* KBStore.get_chunk_embeddings:
\* SELECT chunk_id, vector_json ... WHERE model_spec=? AND chunk_id IN (...).
get_chunk_embeddings(table, chunk_ids, model_spec) ==
    [c \in {x \in chunk_ids \cap DOMAIN table : table[x].model_spec = model_spec} |->
        table[c].vector]

SetChunkEmbeddings(items, model_spec) ==
    /\ DOMAIN items # {}
    /\ chunk_embeddings' = set_chunk_embeddings(chunk_embeddings, items, model_spec)
    /\ UNCHANGED <<last_embeddings, gateway_calls, inodes, directory, writers, readers,
                   cache_data, cache_ttl, cache_time, cache_last>>
    /\ UNCHANGED storesFrame

GetChunkEmbeddings(chunk_ids, model_spec) ==
    /\ chunk_ids # {}
    /\ last_embeddings' = get_chunk_embeddings(chunk_embeddings, chunk_ids, model_spec)
    /\ UNCHANGED <<chunk_embeddings, gateway_calls, inodes, directory, writers, readers,
                   cache_data, cache_ttl, cache_time, cache_last>>
    /\ UNCHANGED storesFrame

(***************************************************************************)
(* The model gateway (backend/llm_client.py).  `net` is how the HTTP       *)
(* exchange with the provider goes: "ok", "transport_error" (connection    *)
(* or timeout), "http_error" (status >= 400, raise_for_status raises; a    *)
(* missing API key gives 401), "not_json" (response.json() raises) or      *)
(* "malformed" (JSON without the expected fields).                         *)
(***************************************************************************)
SupportedProviders == {"openrouter", "dashscope", "apiyi", "ollama"}

\* What embed_texts returns: the vectors, or [] for an empty input list.
Vectors == [kind |-> "vectors", text |-> NoText]
NoVectors == [kind |-> "empty", text |-> NoText]

\* _query_openai_compatible and _query_ollama: every exception of the
\* exchange is caught and None returned; a JSON body without
\* choices[0].message gives a response whose content is None.
query_provider(net) ==
    IF net \in {"transport_error", "http_error", "not_json"} THEN Null
    ELSE IF net = "malformed" THEN Blank
    ELSE Content(NoText)

\* _query_openai_compatible_embeddings and _query_ollama_embeddings.
query_provider_embeddings(net) ==
    IF net \in {"transport_error", "http_error", "not_json", "malformed"} THEN Null
    ELSE Vectors

\* llm_client.query_model
query_model(spec, net) ==
    IF parse_model_spec(spec).provider \in SupportedProviders
    THEN query_provider(net)
    ELSE Raise

\* llm_client.embed_texts for a list of n texts.
embed_texts(spec, n, net) ==
    IF n = 0 THEN NoVectors
    ELSE IF parse_model_spec(spec).provider \in SupportedProviders
    THEN query_provider_embeddings(net)
    ELSE Raise

GatewayCall(fn, spec, net, result) == [fn |-> fn, spec |-> spec, net |-> net, result |-> result]

QueryModel(spec, net) ==
    /\ Len(gateway_calls) < MaxGatewayCalls
    /\ gateway_calls' = Append(gateway_calls,
                               GatewayCall("query_model", spec, net, query_model(spec, net)))
    /\ UNCHANGED <<chunk_embeddings, last_embeddings, inodes, directory, writers, readers,
                   cache_data, cache_ttl, cache_time, cache_last>>
    /\ UNCHANGED storesFrame

EmbedTexts(spec, n, net) ==
    /\ Len(gateway_calls) < MaxGatewayCalls
    /\ gateway_calls' = Append(gateway_calls,
                               GatewayCall("embed_texts", spec, net, embed_texts(spec, n, net)))
    /\ UNCHANGED <<chunk_embeddings, last_embeddings, inodes, directory, writers, readers,
                   cache_data, cache_ttl, cache_time, cache_last>>
    /\ UNCHANGED storesFrame

(***************************************************************************)
(* The JSON files of the stores (backend/file_utils.py atomic_write_json,  *)
(* called by storage.save_conversation, agents_store and settings_store)   *)
(* and their readers (open + json.load).  A file is a directory entry      *)
(* naming an inode; a document is written and read in DocParts pieces.     *)
(* Requests run in worker threads, so the steps of writers and readers     *)
(* interleave.                                                             *)
(***************************************************************************)
Path == "conversation.json"

\* The names tempfile.mkstemp(prefix=path.name + ".", suffix=".tmp") gives:
\* one per call, none of them in use.
TmpNames == <<"conversation.json.a.tmp", "conversation.json.b.tmp", "conversation.json.c.tmp">>

\* json.dump(data) of version v of the document, in the order it is written.
Doc(v) == [p \in 1..DocParts |-> <<v, p>>]

\* A writer that opens the file itself: open(path, "w") truncates the inode
\* that `path` names, or creates one.
open_in_place(dir, ino, path, tmp) ==
    IF path \in DOMAIN dir
    THEN [directory |-> dir, inodes |-> [ino EXCEPT ![dir[path]] = <<>>], fd |-> dir[path]]
    ELSE [directory |-> [n \in DOMAIN dir \cup {path} |->
                            IF n = path THEN Len(ino) + 1 ELSE dir[n]],
          inodes |-> Append(ino, <<>>), fd |-> Len(ino) + 1]

\* tempfile.mkstemp(dir=path.parent): a new empty file named tmp, open for
\* writing.
mkstemp(dir, ino, path, tmp) ==
    [directory |-> [n \in DOMAIN dir \cup {tmp} |-> IF n = tmp THEN Len(ino) + 1 ELSE dir[n]],
     inodes |-> Append(ino, <<>>), fd |-> Len(ino) + 1]

\* os.replace(src, dst): dst names src's inode and src is gone, in one step;
\* FileNotFoundError (the directory is left as it is) when src does not exist.
os_replace(dir, src, dst) ==
    IF src \in DOMAIN dir
    THEN [n \in (DOMAIN dir \cup {dst}) \ {src} |-> IF n = dst THEN dir[src] ELSE dir[n]]
    ELSE dir

\* os.unlink(name); FileNotFoundError is passed over.
os_unlink(dir, name) == [n \in DOMAIN dir \ {name} |-> dir[n]]

fileFrame == <<chunk_embeddings, last_embeddings, gateway_calls, cache_data, cache_ttl,
               cache_time, cache_last>>

\* atomic_write_json(path, data) is called: up to the first write.
WriteStart ==
    /\ Len(writers) < MaxWriters
    /\ LET w == Len(writers) + 1
           o == mkstemp(directory, inodes, Path, TmpNames[w])
       IN /\ directory' = o.directory
          /\ inodes' = o.inodes
          /\ writers' = Append(writers, [pc |-> "write", data |-> w, fd |-> o.fd])
    /\ UNCHANGED readers
    /\ UNCHANGED <<fileFrame, storesFrame>>

\* json.dump writes the next piece of the document; after the last one the
\* file is flushed, synced and closed.
WritePart(w) ==
    /\ w \in DOMAIN writers
    /\ writers[w].pc = "write"
    /\ LET fd == writers[w].fd
           done == Len(inodes[fd])
       IN /\ inodes' = [inodes EXCEPT ![fd] = Append(@, Doc(writers[w].data)[done + 1])]
          /\ writers' = [writers EXCEPT ![w].pc = IF done + 1 = DocParts THEN "replace" ELSE "write"]
    /\ UNCHANGED <<directory, readers>>
    /\ UNCHANGED <<fileFrame, storesFrame>>

\* json.dump or the sync raises: control goes to the finally block.
WriteFails(w) ==
    /\ w \in DOMAIN writers
    /\ writers[w].pc = "write"
    /\ writers' = [writers EXCEPT ![w].pc = "unlink"]
    /\ UNCHANGED <<inodes, directory, readers>>
    /\ UNCHANGED <<fileFrame, storesFrame>>

\* os.replace(tmp_path, path)
WriteReplace(w) ==
    /\ w \in DOMAIN writers
    /\ writers[w].pc = "replace"
    /\ directory' = os_replace(directory, TmpNames[w], Path)
    /\ writers' = [writers EXCEPT ![w].pc = "unlink"]
    /\ readers' = [r \in DOMAIN readers |->
                      IF readers[r].pc = "read" /\ directory'[Path] # readers[r].fd
                      THEN [readers[r] EXCEPT !.overtaken = TRUE] ELSE readers[r]]
    /\ UNCHANGED inodes
    /\ UNCHANGED <<fileFrame, storesFrame>>

\* finally: os.unlink(tmp_path)
WriteUnlink(w) ==
    /\ w \in DOMAIN writers
    /\ writers[w].pc = "unlink"
    /\ directory' = os_unlink(directory, TmpNames[w])
    /\ writers' = [writers EXCEPT ![w].pc = "done"]
    /\ UNCHANGED <<inodes, readers>>
    /\ UNCHANGED <<fileFrame, storesFrame>>

\* A reader (storage.get_conversation, list_agents, get_settings) finds the
\* file and opens it.
ReadOpen ==
    /\ Len(readers) < MaxReaders
    /\ Path \in DOMAIN directory
    /\ readers' = Append(readers, [pc |-> "read", fd |-> directory[Path], got |-> <<>>,
                                    overtaken |-> FALSE])
    /\ UNCHANGED <<inodes, directory, writers>>
    /\ UNCHANGED <<fileFrame, storesFrame>>

\* json.load reads the next piece of the open file, or reaches its end.
ReadPart(r) ==
    /\ r \in DOMAIN readers
    /\ readers[r].pc = "read"
    /\ LET content == inodes[readers[r].fd]
           n == Len(readers[r].got)
       IN readers' = IF n < Len(content)
                     THEN [readers EXCEPT ![r].got = Append(@, content[n + 1])]
                     ELSE [readers EXCEPT ![r].pc = "done"]
    /\ UNCHANGED <<inodes, directory, writers>>
    /\ UNCHANGED <<fileFrame, storesFrame>>

(***************************************************************************)
(* TTLCache (backend/cache_utils.py): _data is an OrderedDict, modelled as *)
(* the sequence of its entries [key, expires_at, value], the least         *)
(* recently used first.  stored_at is history: when the entry was set.     *)
(***************************************************************************)
\* ttl_seconds of KBHybridRetriever._search_cache and _query_embedding_cache.
SearchCacheTtl == 90
EmbeddingCacheTtl == 3600

\* A cache whose entries never expire.
never_expired(ttl, t, expires_at) == FALSE

\* TTLCache._is_expired
is_expired(ttl, t, expires_at) == ttl > 0 /\ t >= expires_at

without_key(data, key) == SelectSeq(data, LAMBDA e : e.key # key)

entry_of(data, key) == CHOOSE e \in {data[i] : i \in DOMAIN data} : e.key = key

has_key(data, key) == \E i \in DOMAIN data : data[i].key = key

\* TTLCache.get: [data, hit, value, age], age being the time since the
\* returned value was set.
cache_get(data, ttl, t, key) ==
    IF ~has_key(data, key)
    THEN [data |-> data, hit |-> FALSE, value |-> 0, age |-> 0]
    ELSE LET e == entry_of(data, key)
         IN IF is_expired(ttl, t, e.expires_at)
            THEN [data |-> without_key(data, key), hit |-> FALSE, value |-> 0, age |-> 0]
            ELSE [data |-> Append(without_key(data, key), e), hit |-> TRUE,
                  value |-> e.value, age |-> t - e.stored_at]

\* popitem(last=False) while the cache holds more than `capacity` entries.
evict(data, capacity) ==
    IF Len(data) > capacity THEN SubSeq(data, Len(data) - capacity + 1, Len(data)) ELSE data

\* TTLCache.set; -1 stands for float("inf").
cache_set(data, ttl, t, key, value, capacity) ==
    evict(Append(without_key(data, key),
                 [key |-> key, expires_at |-> IF ttl > 0 THEN t + ttl ELSE -1,
                  value |-> value, stored_at |-> t]),
          capacity)

\* TTLCache.cleanup
cache_cleanup(data, ttl, t) ==
    IF ttl <= 0 THEN data ELSE SelectSeq(data, LAMBDA e : ~(t >= e.expires_at))

cacheFrame == <<chunk_embeddings, last_embeddings, gateway_calls, inodes, directory, writers,
                readers>>

\* TTLCache(capacity=..., ttl_seconds=ttl)
CacheNew(ttl) ==
    /\ cache_ttl = 0
    /\ cache_ttl' = Max(0, ttl)
    /\ cache_data' = <<>>
    /\ UNCHANGED <<cache_time, cache_last>>
    /\ UNCHANGED <<cacheFrame, storesFrame>>

CacheSet(key, value) ==
    /\ cache_ttl # 0
    /\ cache_data' = cache_set(cache_data, cache_ttl, cache_time, key, value, CacheCapacity)
    /\ UNCHANGED <<cache_ttl, cache_time, cache_last>>
    /\ UNCHANGED <<cacheFrame, storesFrame>>

CacheGet(key) ==
    /\ cache_ttl # 0
    /\ LET g == cache_get(cache_data, cache_ttl, cache_time, key)
       IN /\ cache_data' = g.data
          /\ cache_last' = [key |-> key, hit |-> g.hit, value |-> g.value, age |-> g.age]
    /\ UNCHANGED <<cache_ttl, cache_time>>
    /\ UNCHANGED <<cacheFrame, storesFrame>>

CacheCleanup ==
    /\ cache_ttl # 0
    /\ cache_data' = cache_cleanup(cache_data, cache_ttl, cache_time)
    /\ UNCHANGED <<cache_ttl, cache_time, cache_last>>
    /\ UNCHANGED <<cacheFrame, storesFrame>>

\* Time passes: half of the cache's ttl at a time.
ClockAdvance ==
    /\ cache_ttl # 0
    /\ cache_time < MaxClockSteps * (cache_ttl \div 2)
    /\ cache_time' = cache_time + cache_ttl \div 2
    /\ UNCHANGED <<cache_data, cache_ttl, cache_last>>
    /\ UNCHANGED <<cacheFrame, storesFrame>>

(***************************************************************************)
(* Specifications.  They run the same actions and differ in the table the  *)
(* runner starts over and in the requests the environment makes.           *)
(***************************************************************************)
PayloadsIn == {"p", "q"}
Outcomes == {"ok", "not_ok", "raised"}

WorkerStep ==
    \/ \E w \in Workers : WorkerDequeue(w)
    \/ \E w \in Workers : WorkerAcquire(w)
    \/ \E w \in Workers : ToolProgress(w)
    \/ \E w \in Workers, how \in Outcomes : ToolEnds(w, how)
    \/ \E w \in Workers : WorkerFinish(w)
    \/ \E w \in Workers : WorkerTimeout(w)

\* Spec: the runner under load.  Jobs of one type, created without a key,
\* cancelled through both entry points, failing, timing out and retried.
Next ==
    \/ \E p \in PayloadsIn, m \in 0..MaxAttemptsIn : CreateAndEnqueue("kg_extract", "", "", p, m, FALSE)
    \/ \E j \in JobIds : HttpCancel(j)
    \/ \E j \in JobIds : RunnerCancel(j)
    \/ WorkerStep
    \/ \E d \in delayTasks : DelayFire(d)
    \/ Start
    \/ \E t \in {0, 2} : Tick(t)

Init == InitWith(NumWorkers)

Spec == Init /\ [][Next]_vars

\* SpecRestart: the runner stopped, crashed and started again while jobs are
\* queued, running and waiting for a retry; a plugin may be disabled.
NextRestart ==
    \/ \E p \in PayloadsIn : CreateAndEnqueue("kg_extract", "", "", p, MaxAttemptsIn, FALSE)
    \/ WorkerStep
    \/ \E d \in delayTasks : DelayFire(d)
    \/ Start
    \/ StopBegin
    \/ StopFinish
    \/ Crash
    \/ \E s \in ToolSetsIn : SetTools(s)
    \/ \E t \in {0, 2} : Tick(t)

SpecRestart == Init /\ [][NextRestart]_vars

\* SpecIdem: repeated create_and_enqueue calls, with and without a key and
\* force_new, against jobs of any status and age.
NextIdem ==
    \/ \E type \in JobTypes, k \in KeysIn, f \in BOOLEAN :
          CreateAndEnqueue(type, "", k, "p", 0, f)
    \/ \E j \in JobIds : HttpCancel(j)
    \/ \E w \in Workers : WorkerDequeue(w)
    \/ \E w \in Workers : ToolProgress(w)
    \/ \E w \in Workers, how \in Outcomes : ToolEnds(w, how)
    \/ \E w \in Workers : WorkerFinish(w)
    \/ \E w \in Workers : WorkerTimeout(w)
    \/ Start
    \/ \E t \in Instants : Tick(t)

\* main.py constructs JobRunner(jobs_store, workers=1).
InitIdem == InitWith(1)

SpecIdem == InitIdem /\ [][NextIdem]_vars

\* SpecCaps: jobs of both types while configure() is called with the limits
\* the runner already has.
NextCaps ==
    \/ \E type \in JobTypes, p \in PayloadsIn : CreateAndEnqueue(type, "", "", p, 0, FALSE)
    \/ WorkerStep
    \/ Start
    \/ \E l \in ConfigureIn : Configure(l)

SpecCaps == Init /\ [][NextCaps]_vars

(***************************************************************************)
(* The runner started over a table a previous process left behind: about   *)
(* QueuedListLimit rows, the two oldest of any status, the rest queued.    *)
(***************************************************************************)
BacklogSizes == (QueuedListLimit - BacklogMargin)..(QueuedListLimit + BacklogMargin)
BacklogStatuses == {"queued", "running", "succeeded", "failed", "canceled"}

BacklogRow(i, s1, s2) ==
    IF i <= 2
    THEN [JobRow("evidence_pack", "", default_key("evidence_pack", "", ToString(i)), 0, 0)
            EXCEPT !.status = IF i = 1 THEN s1 ELSE s2]
    ELSE JobRow("kg_extract", "", default_key("kg_extract", "", ToString(i)), 0, 0)

InitBacklog ==
    /\ \E n \in BacklogSizes, s1, s2 \in BacklogStatuses :
          jobs = [i \in 1..n |-> BacklogRow(i, s1, s2)]
    /\ InitRunner(NumWorkers)

NextBacklog == Start

SpecBacklog == InitBacklog /\ [][NextBacklog]_vars

(***************************************************************************)
(* Turns of two conversations build their contexts while one worker runs   *)
(* the jobs of a table a previous process left behind: InjectRows rows,    *)
(* the last of conversation "c2" and the others of "c1", each succeeded    *)
(* or queued, none injected yet.                                           *)
(***************************************************************************)
ConvsIn == {"c1", "c2"}
InjectIds == 1..InjectRows

InjectRow(i, st) ==
    LET conv == IF i < InjectRows THEN "c1" ELSE "c2"
    IN [JobRow("kg_extract", conv, default_key("kg_extract", conv, ToString(i)), 0, 0)
          EXCEPT !.status = st]

InitInject ==
    /\ \E sts \in [InjectIds -> {"succeeded", "queued"}] :
          jobs = [i \in InjectIds |-> InjectRow(i, sts[i])]
    /\ InitRunnerOver(1, InjectIds)

NextInject ==
    \/ \E c \in ConvsIn : ContextBuild(c)
    \/ Start
    \/ WorkerDequeue(1)
    \/ \E how \in {"ok", "raised"} : ToolEnds(1, how)
    \/ WorkerFinish(1)
    \/ \E j \in JobIds : HttpCancel(j)
    \/ Tick(2)

SpecInject == InitInject /\ [][NextInject]_vars

(***************************************************************************)
(* One worker retries a job that has failed several times already: the     *)
(* previous process died while the job ran an attempt, leaving the row     *)
(* running with attempts in BackoffAttemptsIn and max_attempts at its cap. *)
(***************************************************************************)
BackoffAttemptsIn == {0, 9, 10, 14, 19}
BackoffInstants == {1, 2, 1000, 1799, 1800, 1801, 3600, 3700}

InitBackoff ==
    /\ \E a \in BackoffAttemptsIn :
          jobs = <<[JobRow("kg_extract", "", default_key("kg_extract", "", "p"), MaxAttemptsCap, 0)
                      EXCEPT !.status = "running", !.attempts = a]>>
    /\ InitRunnerOver(1, JobIds)

NextBackoff ==
    \/ Start
    \/ WorkerDequeue(1)
    \/ ToolEnds(1, "raised")
    \/ WorkerFinish(1)
    \/ WorkerTimeout(1)
    \/ \E d \in delayTasks : DelayFire(d)
    \/ \E t \in BackoffInstants : Tick(t)

SpecBackoff == InitBackoff /\ [][NextBackoff]_vars

(***************************************************************************)
(* kb_index jobs run by one worker and cancelled through both entry points *)
(* while index_embeddings goes from batch to batch.                        *)
(***************************************************************************)
NextIndex ==
    \/ \E p \in PayloadsIn : CreateAndEnqueue("kb_index", "", "", p, 0, FALSE)
    \/ Start
    \/ WorkerDequeue(1)
    \/ ToolCheckpoint(1)
    \/ ToolProgress(1)
    \/ \E how \in Outcomes : ToolEnds(1, how)
    \/ WorkerFinish(1)
    \/ WorkerTimeout(1)
    \/ \E j \in JobIds : HttpCancel(j)
    \/ \E j \in JobIds : RunnerCancel(j)

SpecIndex == InitIdem /\ [][NextIndex]_vars

(***************************************************************************)
(* Turn: one serious turn of a conversation while other requests edit the  *)
(* agents store.  The runner is idle.                                      *)
(***************************************************************************)
AgentPool == {"a1", "a2"}

ModelSpecOf(id) ==
    IF id = "a1" THEN <<"openrouter", "m1">>
    ELSE IF id = "a2" THEN <<"dashscope", "m2">>
    ELSE <<"", "m3">>

\* An agent as the settings page saves it: weight 1.0, no seniority.
PlainAgent(id, enabled) == AgentConfig(id, ModelSpecOf(id), enabled, InfluenceUnit, 0)

InOrder(ls) == RankingText(TRUE, ls, ls, ls)

\* The ranking that lists the labels of the turn in their order.
LabelsInOrder == [i \in DOMAIN stage1_results |-> LabelNames[i]]

InitTurn ==
    /\ jobs = <<>>
    /\ InitRunnerMem(1, JobIds)
    /\ \E e1 \in BOOLEAN, e2 \in BOOLEAN :
          agents = <<PlainAgent("a1", e1), PlainAgent("a2", e2)>>
    /\ agent_ids \in {<<>>, <<"a2", "a1">>}
    /\ configured \in {{}, {"openrouter"}}
    /\ tpc = "idle"
    /\ s1_agents = <<>>
    /\ s1_resp = <<>>
    /\ stage1_results = <<>>
    /\ s2_agents = <<>>
    /\ s2_resp = <<>>
    /\ label_to_agent = <<>>
    /\ stage2_results = <<>>
    /\ aggregate_rankings = <<>>
    /\ stage3_result = [model |-> <<"", "">>, response |-> "", providers |-> {}]
    /\ NoExtras(StagesOff, 0)
    /\ NoLively
    /\ NoKB
    /\ NoStores

NextTurn ==
    \/ Stage1Start
    \/ \E i \in DOMAIN s1_resp, o \in {Content(NoText), Null, Raise} : Stage1Call(i, o)
    \/ Stage1Collect
    \/ \E i \in DOMAIN s2_resp, o \in {Content(InOrder(LabelsInOrder)), Null} : Stage2Call(i, o)
    \/ Stage2Collect
    \/ \E o \in {Content(NoText), Null} : Stage3Call(o)
    \/ \E id \in AgentPool, e \in BOOLEAN : UpsertAgent(PlainAgent(id, e))
    \/ \E id \in AgentPool : DeleteAgent(id)

SpecTurn == InitTurn /\ [][NextTurn]_vars

(***************************************************************************)
(* Rank: Stage 2 and the aggregate ranking over agents of several weights  *)
(* and every ranking the voters can give.                                  *)
(***************************************************************************)
\* Sequences without repetition over a set of labels.
RECURSIVE Rankings(_)
Rankings(ls) ==
    {<<>>} \cup UNION {{<<l>> \o r : r \in Rankings(ls \ {l})} : l \in ls}

InitRank ==
    /\ jobs = <<>>
    /\ InitRunnerMem(1, JobIds)
    /\ \E w1 \in {0 - InfluenceUnit, 0, InfluenceUnit}, y2 \in {0, 10},
          m3 \in {<<"openrouter", "m1">>, <<"", "m3">>} :
          agents = <<AgentConfig("a1", ModelSpecOf("a1"), TRUE, w1, 0),
                     AgentConfig("a2", ModelSpecOf("a2"), TRUE, 2 * InfluenceUnit, y2),
                     AgentConfig("a3", m3, TRUE, InfluenceUnit, 0)>>
    /\ agent_ids = <<>>
    /\ configured = {"openrouter", "dashscope"}
    /\ tpc = "idle"
    /\ s1_agents = <<>>
    /\ s1_resp = <<>>
    /\ stage1_results = <<>>
    /\ s2_agents = <<>>
    /\ s2_resp = <<>>
    /\ label_to_agent = <<>>
    /\ stage2_results = <<>>
    /\ aggregate_rankings = <<>>
    /\ stage3_result = [model |-> <<"", "">>, response |-> "", providers |-> {}]
    /\ NoExtras(StagesOff, 0)
    /\ NoLively
    /\ NoKB
    /\ NoStores

NextRank ==
    \/ Stage1Start
    \/ \E i \in DOMAIN s1_resp, o \in {Content(NoText), Null} : Stage1Call(i, o)
    \/ Stage1Collect
    \/ \E i \in DOMAIN s2_resp :
          \/ Stage2Call(i, Null)
          \/ \E r \in Rankings(DOMAIN label_to_agent) \ {<<>>} : Stage2Call(i, Content(InOrder(r)))
    \/ Stage2Collect

SpecRank == InitRank /\ [][NextRank]_vars

(***************************************************************************)
(* Parse: Stage 2 of a turn of two agents whose answers are texts of up to *)
(* three parts, with and without the marker, numbering and valid labels.   *)
(***************************************************************************)
TextParts ==
    {Marker, Word(TRUE, "Response A"), Word(FALSE, "Response A"), Word(TRUE, "Response B"),
     Word(FALSE, "Response a")}

TextsIn == UNION {[1..n -> TextParts] : n \in 0..3}

InitParse ==
    /\ jobs = <<>>
    /\ InitRunnerMem(1, JobIds)
    /\ agents = <<PlainAgent("a1", TRUE), PlainAgent("a2", TRUE)>>
    /\ agent_ids = <<>>
    /\ configured = {"openrouter", "dashscope"}
    /\ tpc = "idle"
    /\ s1_agents = <<>>
    /\ s1_resp = <<>>
    /\ stage1_results = <<>>
    /\ s2_agents = <<>>
    /\ s2_resp = <<>>
    /\ label_to_agent = <<>>
    /\ stage2_results = <<>>
    /\ aggregate_rankings = <<>>
    /\ stage3_result = [model |-> <<"", "">>, response |-> "", providers |-> {}]
    /\ NoExtras(StagesOff, 0)
    /\ NoLively
    /\ NoKB
    /\ NoStores

NextParse ==
    \/ Stage1Start
    \/ \E i \in DOMAIN s1_resp : Stage1Call(i, Content(NoText))
    \/ Stage1Collect
    \/ \E i \in DOMAIN s2_resp, t \in TextsIn : Stage2Call(i, Content(scan_text(t)))
    \/ Stage2Collect

SpecParse == InitParse /\ [][NextParse]_vars

(***************************************************************************)
(* Pipeline: one serious turn with the optional stages switched on or off, *)
(* while other requests choose the chairman and delete an agent.  Web      *)
(* search is off, so _build_realtime_context does not suspend.             *)
(***************************************************************************)
SettingsIn ==
    [enable_preprocess : BOOLEAN, enable_roundtable : BOOLEAN, roundtable_rounds : {0, 2},
     enable_fact_check : BOOLEAN, enable_report_generation : BOOLEAN]

ChairmanIdsIn == {"", "a2"}

ChairmanModelsIn == {NoSpec, <<"dashscope", "m9">>}

InitPipeline ==
    /\ jobs = <<>>
    /\ InitRunnerMem(1, JobIds)
    /\ \E e2 \in BOOLEAN : agents = <<PlainAgent("a1", TRUE), PlainAgent("a2", e2)>>
    /\ agent_ids = <<>>
    /\ configured = {"openrouter", "dashscope"}
    /\ tpc = "idle"
    /\ s1_agents = <<>>
    /\ s1_resp = <<>>
    /\ stage1_results = <<>>
    /\ s2_agents = <<>>
    /\ s2_resp = <<>>
    /\ label_to_agent = <<>>
    /\ stage2_results = <<>>
    /\ aggregate_rankings = <<>>
    /\ stage3_result = [model |-> <<"", "">>, response |-> "", providers |-> {}]
    /\ \E s \in SettingsIn, d \in {0, 1} : NoExtras(s, d)
    /\ NoLively
    /\ NoKB
    /\ NoStores

NextPipeline ==
    \/ Stage0Start
    \/ Stage0Call(Content(NoText))
    \/ Stage1Start
    \/ \E i \in DOMAIN s1_resp, o \in {Content(NoText), Null} : Stage1Call(i, o)
    \/ Stage1Collect
    \/ \E i \in DOMAIN s2_resp : Stage2Call(i, Content(InOrder(LabelsInOrder)))
    \/ Stage2Collect
    \/ \E i \in DOMAIN calls.stage2b, o \in {Content(NoText), Null} : Stage2bCall(i, o)
    \/ Stage2bCollect
    \/ Stage2cCall(Content(NoText))
    \/ \E o \in {Content(NoText), Null} : Stage3Call(o)
    \/ \E o \in {Content(NoText), Null} : Stage4Call(o)
    \/ \E id \in ChairmanIdsIn, m \in ChairmanModelsIn : SetConversationChairman(id, m)
    \/ DeleteAgent("a2")

SpecPipeline == InitPipeline /\ [][NextPipeline]_vars

(***************************************************************************)
(* Lively: one lively discussion of two or three agents, over the limits   *)
(* a conversation can store and every outcome of every call.               *)
(***************************************************************************)
LivelyOutcomes == {Content(NoText), Blank, Null}

LeadersIn == {<<>>, <<"a2">>, <<"a2", "zz", "a2", "a1">>}

MessagesIn == {6, 12}

TurnsIn == {1, 3}

InitLively ==
    /\ jobs = <<>>
    /\ InitRunnerMem(1, JobIds)
    /\ \E e3 \in BOOLEAN :
          agents = <<PlainAgent("a1", TRUE), PlainAgent("a2", TRUE), PlainAgent("a3", e3)>>
    /\ agent_ids = <<>>
    /\ configured = {"openrouter", "dashscope"}
    /\ tpc = "idle"
    /\ s1_agents = <<>>
    /\ s1_resp = <<>>
    /\ stage1_results = <<>>
    /\ s2_agents = <<>>
    /\ s2_resp = <<>>
    /\ label_to_agent = <<>>
    /\ stage2_results = <<>>
    /\ aggregate_rankings = <<>>
    /\ stage3_result = [model |-> <<"", "">>, response |-> "", providers |-> {}]
    /\ NoExtras(StagesOff, 0)
    /\ NoLively
    /\ NoKB
    /\ NoStores

NextLively ==
    \/ \E blank \in BOOLEAN, m \in MessagesIn, t \in TurnsIn : LivelyStart(blank, m, t)
    \/ \E o \in LivelyOutcomes : WarmupCall(o)
    \/ \E o \in LivelyOutcomes, raw \in LeadersIn : LeaderPick(o, raw)
    \/ \E o \in LivelyOutcomes : LeaderCall(o)
    \/ \E o \in LivelyOutcomes : FollowCall(o)
    \/ \E o \in LivelyOutcomes : ChatCall(o)
    \/ \E o \in LivelyOutcomes, act \in {"", "continue", "converge"}, note \in BOOLEAN :
          ChairmanDecide(o, act, note)

SpecLively == InitLively /\ [][NextLively]_vars

\* The same discussion when every call ends, so that the stage always takes
\* its next step: each call has a timeout (council.py:1121, 1199, 1249, 1301,
\* 1343).
SpecLivelyFair == InitLively /\ [][NextLively]_vars /\ WF_vars(NextLively)

(***************************************************************************)
(* KB: documents are added and deleted while searches are repeated.        *)
(***************************************************************************)
KbDocsIn == {"d1", "d2", "d3"}

QueriesIn == {"", "q1", "q2"}

InitKB ==
    /\ jobs = <<>>
    /\ InitRunnerMem(1, JobIds)
    /\ NoTurn

NextKB ==
    \/ \E d \in KbDocsIn : AddDocument(d)
    \/ \E d \in KbDocsIn : DeleteDocument(d)
    \/ \E q \in QueriesIn : Search(q)
    \/ \E k \in DOMAIN search_cache : CacheExpire(k)

SpecKB == InitKB /\ [][NextKB]_vars

(***************************************************************************)
(* Embed: chunk embeddings are stored and read under two embedding models. *)
(***************************************************************************)
ChunksIn == {"c1", "c2"}

EmbeddingModelsIn == {<<"openrouter", "e1">>, <<"ollama", "e2">>}

VectorsIn == {"v1", "v2"}

ItemsIn == UNION {[cs -> VectorsIn] : cs \in SUBSET ChunksIn}

InitEmbed ==
    /\ jobs = <<>>
    /\ InitRunnerMem(1, JobIds)
    /\ NoTurn

NextEmbed ==
    \/ \E items \in ItemsIn, m \in EmbeddingModelsIn : SetChunkEmbeddings(items, m)
    \/ \E cs \in SUBSET ChunksIn, m \in EmbeddingModelsIn : GetChunkEmbeddings(cs, m)

SpecEmbed == InitEmbed /\ [][NextEmbed]_vars

(***************************************************************************)
(* Gateway: chat and embedding calls with every kind of model spec and     *)
(* every course of the HTTP exchange.                                      *)
(***************************************************************************)
GatewaySpecsIn == {<<"openrouter", "m1">>, <<"", "m2">>, <<"ollama", "m3">>, <<"azure", "m4">>}

NetIn == {"ok", "transport_error", "http_error", "not_json", "malformed"}

InitGateway ==
    /\ jobs = <<>>
    /\ InitRunnerMem(1, JobIds)
    /\ NoTurn

NextGateway ==
    \/ \E s \in GatewaySpecsIn, net \in NetIn : QueryModel(s, net)
    \/ \E s \in GatewaySpecsIn, n \in {0, 2}, net \in NetIn : EmbedTexts(s, n, net)

SpecGateway == InitGateway /\ [][NextGateway]_vars

(***************************************************************************)
(* Files: a store file is written several times, the first write creating  *)
(* it, while readers open and read it.                                     *)
(***************************************************************************)
InitFiles ==
    /\ jobs = <<>>
    /\ InitRunnerMem(1, JobIds)
    /\ NoTurn

NextFiles ==
    \/ WriteStart
    \/ \E w \in 1..MaxWriters : WritePart(w) \/ WriteFails(w) \/ WriteReplace(w) \/ WriteUnlink(w)
    \/ ReadOpen
    \/ \E r \in 1..MaxReaders : ReadPart(r)

SpecFiles == InitFiles /\ [][NextFiles]_vars

(***************************************************************************)
(* Cache: one TTLCache with either ttl of the retriever, more keys than    *)
(* its capacity, and time passing between the calls.                       *)
(***************************************************************************)
CacheKeysIn == {"k1", "k2", "k3"}

CacheValuesIn == {1, 2}

InitCache ==
    /\ jobs = <<>>
    /\ InitRunnerMem(1, JobIds)
    /\ NoTurn

NextCache ==
    \/ \E ttl \in {SearchCacheTtl, EmbeddingCacheTtl} : CacheNew(ttl)
    \/ \E k \in CacheKeysIn, v \in CacheValuesIn : CacheSet(k, v)
    \/ \E k \in CacheKeysIn : CacheGet(k)
    \/ CacheCleanup
    \/ ClockAdvance

SpecCache == InitCache /\ [][NextCache]_vars

(***************************************************************************)
(* Live: the runner is started once and keeps running (no stop, no crash)  *)
(* while jobs are created, cancelled, retried and deferred, and a plugin   *)
(* is disabled and enabled.  Time passes to the next wake-up of a          *)
(* _delay_enqueue task.  SpecLiveFair adds the scheduling of the event     *)
(* loop: a worker or timer task that can run does run, and a tool task     *)
(* that executes ends or times out.                                        *)
(***************************************************************************)
TimePasses == \E d \in delayTasks : Tick(d.wake)

ToolReturns(w) == (\E how \in Outcomes : ToolEnds(w, how)) \/ WorkerTimeout(w)

NextLive ==
    \/ \E p \in PayloadsIn, m \in 0..MaxAttemptsIn : CreateAndEnqueue("kg_extract", "", "", p, m, FALSE)
    \/ \E j \in JobIds : HttpCancel(j)
    \/ \E j \in JobIds : RunnerCancel(j)
    \/ WorkerStep
    \/ \E d \in delayTasks : DelayFire(d)
    \/ Start
    \/ \E s \in ToolSetsIn : SetTools(s)
    \/ TimePasses

SpecLive == Init /\ [][NextLive]_vars

FairLive ==
    /\ WF_vars(Start)
    /\ WF_vars(TimePasses)
    /\ WF_vars(\E d \in delayTasks : DelayFire(d))
    /\ \A w \in Workers :
          /\ WF_vars(WorkerDequeue(w))
          /\ WF_vars(WorkerAcquire(w))
          /\ WF_vars(ToolReturns(w))
          /\ WF_vars(WorkerFinish(w))

SpecLiveFair == SpecLive /\ FairLive

(***************************************************************************)
(* Claims.                                                                 *)
(***************************************************************************)
Range(q) == {q[i] : i \in DOMAIN q}

\* The attempt of worker w ends in this step by an exception of the awaited task.
EndsByException(w) ==
    \/ WorkerTimeout(w)
    \/ (WorkerFinish(w) /\ task[w] \in {"raised", "cancelled", "job_cancelled"})

\* The attempt of worker w fails in this step: the tool raised, returned
\* ok:false or exceeded its timeout.
AttemptFails(w) ==
    \/ WorkerTimeout(w)
    \/ (WorkerFinish(w) /\ task[w] \in {"raised", "not_ok"})

\* C1: once a job's stored status is succeeded, failed or canceled, no step
\* changes it to another status.
C1_TerminalSticky ==
    [][\A j \in DOMAIN jobs :
          jobs[j].status \in Terminal => jobs'[j].status = jobs[j].status]_vars

\* C2: a job is never held (claimed and waiting for the semaphore, or
\* executing) by two workers at once, and a worker that dequeues a job another
\* worker holds leaves the job's row alone and takes up no job.
C2_NoDoubleHold == \A j \in JobIds : Cardinality(Holder(j)) <= 1

C2_LoserDrops ==
    \A w \in Workers :
        (WorkerDequeue(w) /\ Head(queue) # 0 /\ Holder(Head(queue)) # {})
            => /\ jobs' = jobs
               /\ pc'[w] \in {"get", "done"}
               /\ wjob'[w] = NoJob
               /\ task' = task /\ cancel_events' = cancel_events /\ sems' = sems

C2_ClaimOnce == []C2_NoDoubleHold /\ [][C2_LoserDrops]_vars

\* C2 witness: a worker has just dequeued and dropped a job that another worker is executing.
C2_Witness ==
    /\ last = Obs("dequeue", last.id, "dropped")
    /\ \E w \in Workers : pc[w] = "run" /\ wjob[w].id = last.id

\* C3: an attempt of a cancelled job (stored status canceled, or cancel event
\* set) that ends by an exception - tool error, timeout, task cancellation -
\* leaves the job canceled.
C3_CancelWins ==
    [][\A w \in Workers :
          (pc[w] = "run" /\ is_job_cancelled(wjob[w].id) /\ EndsByException(w))
              => jobs'[wjob[w].id].status = "canceled"]_vars

\* C4: a cancel request, through either entry point, for a job whose tool is
\* executing leaves the status canceled, the cancel event set and the task cancelled.
C4_CancelStopsTool ==
    [][\A j \in DOMAIN jobs : \A w \in Workers :
          (pc[w] = "run" /\ task[w] = "exec" /\ wjob[w].id = j
           /\ (RunnerCancel(j) \/ HttpCancel(j)))
              => /\ jobs'[j].status = "canceled"
                 /\ cancel_events'[j] = "set"
                 /\ task'[w] = "cancelled"]_vars

KeyOf(type, k, p) == IF k = "" THEN default_key(type, "", p) ELSE k

\* The latest row (highest created_at) of a job type and key, 0 if there is none.
LatestOf(type, key) ==
    LET rows == {i \in DOMAIN jobs : jobs[i].job_type = type /\ jobs[i].idempotency_key = key}
    IN IF rows = {} THEN 0 ELSE CHOOSE i \in rows : \A o \in rows : o <= i

AgeOf(j) == now - jobs[j].updated_at

\* The call returned a job it has just inserted and put on the queue.
ReturnsNewJob(r) ==
    /\ Len(r.jobs) = Len(jobs) + 1
    /\ r.id = Len(r.jobs)
    /\ r.jobs[r.id].status = "queued"
    /\ r.id \in Range(r.st.queue)

\* C6: without force_new, a call whose (job_type, key) has a latest job that
\* is queued or running, or succeeded with age <= the type's TTL, returns that
\* job's id and leaves the table as it is; without a key, the key is the hash
\* of the request.
C6_ReusesJob ==
    \A type \in JobTypes, k \in KeysIn, p \in PayloadsIn :
        LET l == LatestOf(type, KeyOf(type, k, p))
            r == create_and_enqueue_result(type, "", k, p, 0, FALSE)
        IN (/\ l # 0
            /\ \/ jobs[l].status \in {"queued", "running"}
               \/ (jobs[l].status = "succeeded" /\ AgeOf(l) <= DefaultResultTtls[type]))
               => (r.id = l /\ r.jobs = jobs)

\* C6 witness: a call has just returned the id of a succeeded job that is not
\* the only row of its key and whose age is within a TTL > 0.
C6_Witness ==
    /\ last.op = "create" /\ last.res = "reused"
    /\ jobs[last.id].status = "succeeded"
    /\ AgeOf(last.id) > 0
    /\ \E i \in DOMAIN jobs : i < last.id /\ jobs[i].job_type = jobs[last.id].job_type
                              /\ jobs[i].idempotency_key = jobs[last.id].idempotency_key

\* C7: without force_new, a call whose latest job is succeeded and older than
\* the type's TTL returns a new job, inserted and enqueued.
C7_ExpiredMakesNew ==
    \A type \in JobTypes, k \in KeysIn, p \in PayloadsIn :
        LET l == LatestOf(type, KeyOf(type, k, p))
            r == create_and_enqueue_result(type, "", k, p, 0, FALSE)
        IN (l # 0 /\ jobs[l].status = "succeeded" /\ AgeOf(l) > DefaultResultTtls[type]
            /\ Len(jobs) < MaxJobs)
               => (r.id # l /\ ReturnsNewJob(r))

\* C8: a call with force_new returns a new job, inserted and enqueued,
\* whatever the jobs of its key are.
C8_ForceNewMakesNew ==
    \A type \in JobTypes, k \in KeysIn, p \in PayloadsIn :
        LET r == create_and_enqueue_result(type, "", k, p, 0, TRUE)
        IN Len(jobs) < MaxJobs => ReturnsNewJob(r)

\* C9: for each job type, the number of executing tools is at most the limit
\* configured for the type (the worker count when none is configured).
ExecutingOfType(type) == {w \in Workers : pc[w] = "run" /\ task[w] = "exec" /\ wjob[w].job_type = type}

C9_CapRespected == \A type \in JobTypes : Cardinality(ExecutingOfType(type)) <= sem_limit(type)

\* C10: start() leaves no job running; every job that was running is queued;
\* every queued job is on the queue; the ids start() puts on the queue are
\* the queued jobs not yet enqueued, in insertion order.
C10_StartPost ==
    LET added == SubSeq(queue', Len(queue) + 1, Len(queue'))
        onQueue == Range(queue')
    IN /\ \A j \in DOMAIN jobs' : jobs'[j].status # "running"
       /\ \A j \in DOMAIN jobs : jobs[j].status = "running" => jobs'[j].status = "queued"
       /\ \A j \in DOMAIN jobs' : jobs'[j].status = "queued" => j \in onQueue
       /\ SubSeq(queue', 1, Len(queue)) = queue
       /\ \A a \in 1..(Len(added) - 1) : added[a] < added[a + 1]
       /\ Range(added) = {j \in DOMAIN jobs' : jobs'[j].status = "queued"} \ enqueued

C10_StartRecovers == [][Start => C10_StartPost]_vars

\* C11: no job's summary is returned by the context builds more than once;
\* a context build returns at most 4 summaries, all of succeeded jobs of the
\* conversation the context is built for.
C11_AtMostOnce == \A j \in DOMAIN returned : returned[j] <= 1

C11_BuildReturns ==
    \A c \in ConvsIn :
        ContextBuild(c)
            => LET got == {j \in DOMAIN returned : returned'[j] # returned[j]}
               IN /\ Cardinality(got) <= 4
                  /\ \A j \in got : /\ jobs[j].status = "succeeded"
                                     /\ jobs[j].conversation_id = c

C11_InjectedOnce == []C11_AtMostOnce /\ [][C11_BuildReturns]_vars

\* C11 witness: five jobs of one conversation have been returned, by at least
\* two context builds, and a job of the other conversation as well.
C11_Witness ==
    /\ Cardinality({j \in DOMAIN returned : returned[j] = 1 /\ jobs[j].conversation_id = "c1"}) >= 5
    /\ \E j \in DOMAIN returned : returned[j] = 1 /\ jobs[j].conversation_id = "c2"

\* C12: a failed attempt that re-queues its job with attempts = n sets
\* run_after_ts to now + min(1800, 2^min(15, n)); a worker takes up a job it
\* dequeues (claims it, waits for the semaphore or executes it) only when
\* run_after_ts has passed.
C12_RetrySetsDelay ==
    \A w \in Workers :
        (pc[w] = "run" /\ AttemptFails(w) /\ jobs'[wjob[w].id].status = "queued")
            => LET n == jobs'[wjob[w].id].attempts
               IN jobs'[wjob[w].id].run_after_ts = now + Min(1800, Pow2(Min(15, n)))

C12_ClaimWaits ==
    \A w \in Workers :
        (WorkerDequeue(w) /\ Head(queue) # 0 /\ jobs'[Head(queue)].status = "running")
            => now >= jobs[Head(queue)].run_after_ts

C12_Backoff == [][C12_RetrySetsDelay /\ C12_ClaimWaits]_vars

\* C12 witness: the job is executing its attempt after the 11th failure: the
\* retry from attempts 10 to 11 got the capped delay, which has passed.
C12_Witness ==
    /\ Len(jobs) = 1 /\ jobs[1].attempts = 11 /\ jobs[1].max_attempts = MaxAttemptsCap
    /\ \E w \in Workers : pc[w] = "run" /\ wjob[w].id = 1
    /\ now >= 1800

\* C13: when the kb_index tool of a cancelled job (stored status canceled, or
\* cancel event set) calls the context's check_job_cancelled before a window
\* or sub-batch, the call raises and the tool ends instead of starting the
\* batch.
C13_ContextCheckRaises ==
    [][(ToolCheckpoint(1) /\ is_job_cancelled(wjob[1].id))
          => (task'[1] # "exec" /\ last'.res = "raised")]_vars

\* C14: every job with injected = true has status succeeded.
C14_InjectedSucceeded ==
    \A j \in DOMAIN jobs : jobs[j].injected => jobs[j].status = "succeeded"

\* C14 witness: a context build has marked a job of a conversation while
\* another job of the conversation was not succeeded; that job has failed
\* since and is not marked.
C14_Witness ==
    \E j, k \in DOMAIN jobs :
        /\ jobs[j].conversation_id = jobs[k].conversation_id
        /\ jobs[j].injected /\ returned[j] = 1
        /\ jobs[k].status = "failed" /\ ~jobs[k].injected
        /\ jobs[k].updated_at > jobs[j].updated_at

\* C15: the attempts counter of every job is at most its max_attempts.
C15_AttemptsBounded == \A j \in DOMAIN jobs : jobs[j].attempts <= jobs[j].max_attempts

\* C15 witness: a job that has used its last retry is executing again.
C15_Witness ==
    \E w \in Workers :
        /\ pc[w] = "run" /\ task[w] = "exec"
        /\ jobs[wjob[w].id].max_attempts > 0
        /\ jobs[wjob[w].id].attempts = jobs[wjob[w].id].max_attempts

\* C16: a turn that has ended with no Stage 1 record (every Stage 1 call
\* returned null, or no agent was enabled) has the error response as its
\* result: model "error", naming the providers of the conversation's agents
\* whose keys are known to be missing.
C16_EmptyStage1IsError ==
    (tpc = "done" /\ stage1_results = <<>>)
        => stage3_result = run_full_council_error(s2_agents)

\* C17: in Stage 1 a gateway call that returns None or raises gives its agent
\* no response, changes no other agent's response and does not end the
\* stage; when the stage ends it has not raised, and its records are those of
\* exactly the agents whose call answered, in the order of the agent list.
C17_FailureIsolated ==
    [][/\ \A i \in DOMAIN s1_resp, o \in {Null, Raise} :
             Stage1Call(i, o)
                 => /\ s1_resp'[i] = None
                    /\ \A k \in DOMAIN s1_resp : k # i => s1_resp'[k] = s1_resp[k]
                    /\ tpc' = "stage1"
       /\ Stage1Collect
             => /\ tpc' = "stage2"
                /\ \A i \in DOMAIN s1_agents :
                      s1_resp[i].kind = "content"
                          <=> \E n \in DOMAIN stage1_results' :
                                 stage1_results'[n].agent_id = s1_agents[i].id
                /\ \A n, m \in DOMAIN stage1_results' :
                      n < m => \E i, k \in DOMAIN s1_agents :
                                  /\ i < k
                                  /\ stage1_results'[n].agent_id = s1_agents[i].id
                                  /\ stage1_results'[m].agent_id = s1_agents[k].id]_vars

\* C17 witness: Stage 1 has ended over two agents; the call of the first one
\* failed and the record of the second one was collected.
C17_Witness ==
    /\ tpc = "stage2"
    /\ Len(s1_agents) = 2
    /\ s1_resp[1] = None
    /\ s1_resp[2].kind = "content"
    /\ Len(stage1_results) = 1
    /\ stage1_results[1].agent_id = s1_agents[2].id

\* The place of agent id in a list of agents (0 when it is not in it).
PlaceIn(ags, id) ==
    IF \E i \in DOMAIN ags : ags[i].id = id
    THEN CHOOSE i \in DOMAIN ags : ags[i].id = id /\ \A k \in DOMAIN ags : ags[k].id = id => i <= k
    ELSE 0

\* C18: once Stage 2 has started, the i-th Stage 1 record has the i-th label,
\* no two labels have the same agent, and any two labelled records whose
\* agents are in the agent list read when Stage 2 started are in the order of
\* that list, whatever other requests did to the agents store meanwhile.
C18_LabelsFollowStage2List ==
    tpc \in {"stage2", "stage3", "done"}
        => /\ DOMAIN label_to_agent = {LabelNames[i] : i \in DOMAIN stage1_results}
           /\ \A i \in DOMAIN stage1_results :
                 label_to_agent[LabelNames[i]].agent_id = stage1_results[i].agent_id
           /\ \A l1, l2 \in DOMAIN label_to_agent :
                 l1 # l2 => label_to_agent[l1].agent_id # label_to_agent[l2].agent_id
           /\ \A n, m \in DOMAIN stage1_results :
                 LET pn == PlaceIn(s2_agents, stage1_results[n].agent_id)
                     pm == PlaceIn(s2_agents, stage1_results[m].agent_id)
                 IN (n < m /\ pn # 0 /\ pm # 0) => pn < pm

\* The weight the specification gives Stage 2 record n, in WeightUnit:
\* max(0, influence_weight) x (1 + seniority_years / 10).
StatedWeight(n) ==
    (Max(0, stage2_results[n].influence_weight) * (10 + stage2_results[n].seniority_years)
        * WeightUnit) \div (10 * InfluenceUnit)

\* The model whose response voter n put at position p (<<"", "">> for a label
\* that is not one of the turn).
ModelAt(n, p) ==
    LET l == stage2_results[n].parsed_ranking[p]
    IN IF l \in DOMAIN label_to_agent THEN label_to_agent[l].model_spec ELSE <<"", "">>

\* Sum over the votes for model m of f(position, stated weight of the voter).
StatedSum(m, f(_, _)) ==
    SumSeq([n \in DOMAIN stage2_results |->
              SumSeq([p \in DOMAIN stage2_results[n].parsed_ranking |->
                        IF ModelAt(n, p) = m THEN f(p, StatedWeight(n)) ELSE 0])])

\* C19: once the aggregate ranking is computed, it has one entry for each
\* model that received a vote; the average_rank of an entry is sum(position x
\* weight) / sum(weight) over the votes for the model (to three decimals),
\* each voter weighing max(0, influence_weight) x (1 + seniority_years / 10),
\* so that a voter of weight 0 adds nothing; and the entries are in ascending
\* order of average_rank.
C19_WeightedAverage ==
    tpc = "stage3"
        => /\ {aggregate_rankings[i].model : i \in DOMAIN aggregate_rankings}
                 = UNION {{ModelAt(n, p) : p \in DOMAIN stage2_results[n].parsed_ranking} :
                             n \in DOMAIN stage2_results} \ {<<"", "">>}
           /\ \A i \in DOMAIN aggregate_rankings :
                 LET m == aggregate_rankings[i].model
                     total == StatedSum(m, LAMBDA p, w : w)
                 IN total > 0
                       => aggregate_rankings[i].average_rank
                             = RoundHalfEven(StatedSum(m, LAMBDA p, w : p * w) * RankUnit, total)
           /\ \A i, k \in DOMAIN aggregate_rankings :
                 i < k => aggregate_rankings[i].average_rank <= aggregate_rankings[k].average_rank

\* The positions at which voter n ranked responses of model m.
PositionsOf(n, m) ==
    {p \in DOMAIN stage2_results[n].parsed_ranking : ModelAt(n, p) = m}

\* Voter n ranked a response of model a, and that response above each
\* response of model b it ranked, of which there is one.
RanksAbove(n, a, b) ==
    /\ PositionsOf(n, b) # {}
    /\ \E p \in PositionsOf(n, a) : \A q \in PositionsOf(n, b) : p < q

\* C20: for any two models of the aggregate ranking, if every voter ranked
\* the response of the first above the response of the second, the first has
\* the strictly smaller average_rank and comes earlier in the list.
C20_UnanimousOrder ==
    tpc = "stage3"
        => \A i, k \in DOMAIN aggregate_rankings :
              (/\ i # k
               /\ \A n \in DOMAIN stage2_results :
                     RanksAbove(n, aggregate_rankings[i].model, aggregate_rankings[k].model))
                  => /\ aggregate_rankings[i].average_rank < aggregate_rankings[k].average_rank
                     /\ i < k

\* A sequence holds no value twice.
NoRepeat(s) == \A i, k \in DOMAIN s : i # k => s[i] # s[k]

\* C21: the parsed_ranking of every Stage 2 record holds only labels of the
\* form Response A ... Response Z, and no label twice.
C21_ParsedLabelsDistinct ==
    \A n \in DOMAIN stage2_results :
        /\ \A p \in DOMAIN stage2_results[n].parsed_ranking :
              stage2_results[n].parsed_ranking[p] \in UpperLabels
        /\ NoRepeat(stage2_results[n].parsed_ranking)

StageOrder == <<"stage0", "stage1", "stage2", "stage2b", "stage2c", "stage3", "stage4">>

StagePlace(stage) == CHOOSE n \in DOMAIN StageOrder : StageOrder[n] = stage

\* What the calls a stage dispatched have returned so far.
RespOf(stage) ==
    IF stage = "stage1" THEN s1_resp
    ELSE IF stage = "stage2" THEN s2_resp
    ELSE [i \in DOMAIN calls[stage] |-> calls[stage][i].resp]

Dispatched(stage) == RespOf(stage) # <<>>

PendingIn(stage) == \E i \in DOMAIN RespOf(stage) : RespOf(stage)[i].kind = "pending"

StageStarts == SelectSeq(trace, LAMBDA e : e[1] = "stage_start")

NamedChairman == {i \in DOMAIN agents : chairman_agent_id # "" /\ agents[i].id = chairman_agent_id}

\* The model the chairman call is to go to, as the conversation and the
\* agents store stand: m is that model.
IsStatedChairman(m) ==
    /\ \A i \in NamedChairman : m = agents[i].model_spec
    /\ chairman_agent_id = "" /\ chairman_model # NoSpec => m = chairman_model
    /\ chairman_agent_id = "" /\ chairman_model = NoSpec => m = ChairmanSpec

\* C23: the call that Stage 3 dispatches, and the call that Stage 4
\* dispatches, goes to the model of the agent the conversation's
\* chairman_agent_id names if one is set, else to the conversation's
\* chairman_model if set, else to the global chairman_model.
C23_ChairmanModel ==
    [][/\ (tpc # "stage3" /\ tpc' = "stage3" => IsStatedChairman(calls'.stage3[1].model))
       /\ (tpc # "stage4" /\ tpc' = "stage4" => IsStatedChairman(calls'.stage4[1].model))]_vars

\* Both calls went to the model of a disabled agent chosen as chairman.
C23_Witness ==
    /\ tpc = "done"
    /\ chairman_agent_id = "a2"
    /\ \E i \in DOMAIN agents : agents[i].id = "a2" /\ ~agents[i].enabled
    /\ calls.stage3 # <<>> /\ calls.stage3[1].model = ModelSpecOf("a2")
    /\ calls.stage4 # <<>> /\ calls.stage4[1].model = ModelSpecOf("a2")

C25_ZeroRoundsSkipsRoundtable ==
    settings.roundtable_rounds = 0 =>
        /\ calls.stage2b = <<>>
        /\ roundtable = <<>>
        /\ \A n \in DOMAIN trace : trace[n] # Event("stage_start", "stage2b")

\* C26: the lively stage always returns, whatever its calls give.
C26_LivelyTerminates == <>(lpc = "done")

\* C27: at every point of a lively discussion the transcript, agent messages
\* and chairman notes together, holds at most max_messages entries.
C27_TranscriptBounded == Len(transcript) <= max_messages

\* The transcript became full in the leaders' phase: the followers and the
\* free-flow loop were skipped.
C27_Witness ==
    /\ lpc = "done"
    /\ Len(transcript) = max_messages
    /\ max_messages = 6
    /\ Len(leader_ids) = 2
    /\ turns_used = 0
    /\ since_checkpoint = 0
    /\ transcript[Len(transcript)] = leader_ids[2]

\* C28: with 3 agents, max_messages 12, max_turns 3, one leader and every
\* call succeeding, a discussion the chairman ends with converge at its first
\* checkpoint has at most 8 transcript entries.
C28_ConvergeAtFirstCheckpoint ==
    /\ Len(lively_agents) = 3 /\ max_messages = 12 /\ max_turns = 3
    /\ Len(leader_ids) = 1 /\ ~silent
    /\ lpc = "done" /\ action = "converge" /\ turns_used = 1
    => Len(transcript) <= 8

\* C29: once a turn or a lively stage has returned, every stage_start event
\* of the trace is followed by a stage_complete event of the same stage.
C29_EveryStartCompletes ==
    tpc = "done" \/ lpc = "done" =>
        \A i \in DOMAIN trace :
            trace[i][1] = "stage_start" =>
                \E k \in DOMAIN trace : k > i /\ trace[k] = Event("stage_complete", trace[i][2])

\* C30: a search never returns a cached result that was stored before the
\* latest write of the knowledge base.
C30_WriteInvalidatesCache == ~(last_search.cached /\ last_search.stale)

(***************************************************************************)
(* C34: no tool invocation is ever started for a job whose stored status   *)
(* is canceled.  A tool invocation starts in the step that creates the     *)
(* tool task: the worker passes `async with sem` and reaches `await task`. *)
(***************************************************************************)
ToolStarts(w) == pc[w] # "run" /\ pc'[w] = "run"

C34_NoToolForCanceled ==
    [][\A w \in Workers :
          ToolStarts(w) => jobs[wjob'[w].id].status # "canceled"]_vars

(***************************************************************************)
(* C31: storing a chunk's embedding under one model neither removes nor    *)
(* changes what get_chunk_embeddings returns for the same chunks under     *)
(* another model.                                                          *)
(***************************************************************************)
C31_OtherModelKept ==
    [][\A items \in ItemsIn : \A b \in EmbeddingModelsIn :
          SetChunkEmbeddings(items, b) =>
              \A a \in EmbeddingModelsIn \ {b} :
                  get_chunk_embeddings(chunk_embeddings', ChunksIn, a)
                      = get_chunk_embeddings(chunk_embeddings, ChunksIn, a)]_vars

(***************************************************************************)
(* C32: a gateway chat or embed call never raises to its caller: every     *)
(* failure (transport error, HTTP status >= 400, response that is not      *)
(* JSON, unsupported provider in the model spec) is returned as null.      *)
(***************************************************************************)
GatewayFailure(c) ==
    \/ parse_model_spec(c.spec).provider \notin SupportedProviders
    \/ c.net \in {"transport_error", "http_error", "not_json"}

C32_GatewayNeverRaises ==
    \A i \in DOMAIN gateway_calls :
        LET c == gateway_calls[i]
        IN /\ c.result.kind # "raise"
           /\ (GatewayFailure(c) /\ c.result # NoVectors) => c.result = Null

(***************************************************************************)
(* C33: a reader that reads a store file while it is being written sees    *)
(* either the complete previous content or the complete new content,       *)
(* never a partially written file.                                         *)
(***************************************************************************)
CompleteDocs == {Doc(v) : v \in 1..MaxWriters}

C33_ReaderSeesWholeFile ==
    \A r \in DOMAIN readers : readers[r].pc = "done" => readers[r].got \in CompleteDocs

\* A reader opened the file, a writer replaced it while the reader was
\* still reading, and the reader finished with the previous content.
C33_Witness ==
    \E r \in DOMAIN readers :
        /\ readers[r].pc = "done"
        /\ readers[r].overtaken
        /\ readers[r].got \in CompleteDocs
        /\ inodes[directory[Path]] # readers[r].got

(***************************************************************************)
(* C40: a TTL cache lookup never returns a value that was stored more than *)
(* ttl seconds before the lookup, whatever sets, gets, cleanups and        *)
(* evictions came before.                                                  *)
(***************************************************************************)
C40_NoStaleHit == cache_last.hit => cache_last.age <= cache_ttl

\* A hit on an entry that has aged, in a full cache another entry of which
\* has expired without having been dropped yet.
C40_Witness ==
    /\ cache_last.hit
    /\ cache_last.age > 0
    /\ Len(cache_data) = CacheCapacity
    /\ \E i \in DOMAIN cache_data : cache_time >= cache_data[i].expires_at

(***************************************************************************)
(* C35: every job that is created and enqueued eventually reaches a        *)
(* terminal status (succeeded, failed or canceled), the runner running,    *)
(* the tools ending and the workers being scheduled fairly.                *)
(***************************************************************************)
C35_EveryJobEnds ==
    \A j \in JobIds :
        (j \in DOMAIN jobs) ~> (j \in DOMAIN jobs /\ jobs[j].status \in Terminal)

\* A job whose first attempt failed was deferred, ran again and succeeded.
C35_Witness ==
    \E j \in DOMAIN jobs : jobs[j].attempts = 1 /\ jobs[j].status = "succeeded"

(***************************************************************************)
(* C36: a job that was running when the runner stopped (stop() or crash)   *)
(* and that no user cancelled is queued again by the next start() and      *)
(* executed again; it is not left in a terminal status without having      *)
(* completed.  Under SpecRestart no user cancels any job, so no job may    *)
(* ever be canceled there.                                                 *)
(***************************************************************************)
C36_InterruptedRunsAgain == \A j \in DOMAIN jobs : jobs[j].status # "canceled"

(***************************************************************************)
(* C37: in lively free-flow, with checkpoint_every = clamp(4, 10,          *)
(* |agents| + 1), the chairman is asked for a decision each time           *)
(* checkpoint_every messages have been posted since the previous           *)
(* checkpoint; the counter is reset to 0 at each checkpoint and lies in    *)
(* 0..checkpoint_every - 1 at the start of every loop iteration, the one   *)
(* in which the transcript reaches max_messages included.                  *)
(***************************************************************************)
ClaimedEvery == Max(4, Min(10, Len(lively_agents) + 1))

InFreeFlow == lpc \in {"chat", "decide"}

CounterInRange ==
    (InFreeFlow \/ lpc = "done") => since_checkpoint \in 0..(ClaimedEvery - 1)

\* A free-flow call ended and its message was posted.
Posted == lpc = "chat" /\ Len(transcript') = Len(transcript) + 1

\* A free-flow call ended without a message.
NotPosted == lpc = "chat" /\ transcript' = transcript

AtCheckpoint == Posted /\ since_checkpoint + 1 = ClaimedEvery

CounterCounts ==
    /\ NotPosted => (since_checkpoint' = since_checkpoint /\ lpc' # "decide")
    /\ (Posted /\ ~AtCheckpoint) => (since_checkpoint' = since_checkpoint + 1 /\ lpc' # "decide")
    /\ AtCheckpoint => (since_checkpoint' = 0 /\ turns_used' = turns_used + 1)

\* As claimed: the chairman is asked at every checkpoint.
C37_ChairmanAskedEveryCheckpoint ==
    []CounterInRange /\ [][CounterCounts /\ (AtCheckpoint => lpc' = "decide")]_vars

\* C37 amended: the chairman is asked at every checkpoint but the one that
\* uses up max_turns, at which the stage returns without asking.
C37_ChairmanAskedUnlessTurnsUsed ==
    /\ []CounterInRange
    /\ [][/\ CounterCounts
          /\ AtCheckpoint => IF turns_used + 1 >= max_turns THEN lpc' = "done"
                             ELSE lpc' = "decide"]_vars

\* The chairman is asked at a checkpoint after having been asked at an
\* earlier one, and the stage has ended with the transcript full and the
\* counter in the middle of an interval.
C37_Witness ==
    /\ lpc = "done"
    /\ turns_used >= 2
    /\ Len(transcript) = max_messages
    /\ since_checkpoint > 0

(***************************************************************************)
(* C38: in lively free-flow with at least two agents, speakers are taken   *)
(* round-robin from the roster, and the agent chosen to speak next is      *)
(* never the author of the immediately preceding transcript message, so    *)
(* no agent posts two consecutive messages.                                *)
(***************************************************************************)
\* The next in turn: the head of the rotating roster, or the one after it
\* when the head wrote the last message.
NextInTurn(roster, t) ==
    IF Head(roster) # last_id(t) THEN Head(roster) ELSE roster[2]

\* The step ends with a free-flow call under way: its speaker was picked.
Picks == lpc' = "chat" /\ Len(lively_agents) >= 2

PickedInTurn ==
    Picks => /\ speaker' = NextInTurn(lively_agents, transcript')
             /\ speaker' # last_id(transcript')
             /\ \E n \in 1..Len(lively_agents) :
                   lively_agents' = SubSeq(lively_agents, n + 1, Len(lively_agents))
                                        \o SubSeq(lively_agents, 1, n)

NoTwoInARow ==
    (lpc = "chat" /\ Len(transcript') = Len(transcript) + 1 /\ transcript # <<>>)
        => last_id(transcript') # last_id(transcript)

C38_RoundRobinNoRepeat == [][PickedInTurn /\ NoTwoInARow]_vars

\* Two free-flow messages in a row by different agents, in a discussion one
\* of whose calls gave no content, and the next speaker picked.
C38_Witness ==
    /\ lpc = "chat"
    /\ silent
    /\ since_checkpoint >= 2
    /\ Len(transcript) >= 2
    /\ transcript[Len(transcript)] # ""
    /\ transcript[Len(transcript) - 1] # ""
    /\ speaker # transcript[Len(transcript)]

(***************************************************************************)
(* C39: when the lively warm-up phase ends, the transcript contains        *)
(* exactly one warm-up message from each agent of the roster, in roster    *)
(* order.                                                                  *)
(***************************************************************************)
WarmupEnded == lpc = "pick"

C39_OneMessagePerAgent == WarmupEnded => transcript = lively_agents
====
